---- MODULE Spec2Model ----
(***************************************************************************)
(* Tab/panel controller, per-item state store and diary aggregation of     *)
(* the itinerary page (src/script.js).                                     *)
(*                                                                         *)
(* The page session is modelled between two page loads: Startup is the     *)
(* DOMContentLoaded handler, the other actions are the event handlers the  *)
(* handler installs, Reload / Navigate start a new page session with the   *)
(* same durable storage.                                                   *)
(***************************************************************************)
EXTENDS Integers, Sequences, FiniteSets, TLC

VARIABLES
    itineraryData,  \* window.itineraryData: the days in document order; the
                    \* controller is given each day's id and the number of
                    \* rows of its schedule, parseItinerary the whole records
    diaryMarkup,    \* the #diary section of the page markup
    loaded,         \* the DOMContentLoaded handler has run in this session
    dia,            \* the `dia` query parameter of the page address
    lastDay,        \* localStorage['lastDay']
    store,          \* localStorage['day-D-item-I'] for the items of the days
    tabs,           \* the buttons of #tab-list, in order
    tabPanels,      \* window.tabPanels: view id -> panel
    focus,          \* index of the focused tab of the strip, 0 for none
    diaryList,      \* children of #diary-list
    diaryHidden,    \* the #diary section carries class `hidden`
    buildCount,     \* history: panels built so far in this session, per view
    setupCalls,     \* history: calls of window.setupMemoriesPanel
    lastDayView,    \* history: id of the last day view that was activated
    lastOpened,     \* history: the id of the last call of openTab, and whether
                    \* a panel was registered under it when the call began
    lastOp,         \* history: the last handler that ran
    cards,          \* the .day-card blocks of the document, in document order
    widget,         \* the memories widget setupMemoriesPanel builds
    dayMemories,    \* day id -> the memories containers of the day's panel
    cover,          \* the #cover-memories container
    net,            \* the responses the page is waiting for
    db,             \* the database file of the backend
    sessions,       \* client -> req.session.user of its session
    uuids,          \* the number of identifiers uuidv4 has produced
    lastReq         \* history: the request answered or the response handled in
                    \* the last step

\* The variables of the tab/panel controller.
ctlVars == <<itineraryData, diaryMarkup, loaded, dia, lastDay, store, tabs,
             tabPanels, focus, diaryList, diaryHidden, buildCount, setupCalls,
             lastDayView, lastOpened, lastOp, cards>>

\* The variables of the memories widget and of the itinerary side's memories.
memVars == <<widget, dayMemories, cover, net>>

\* The variables of the backend.
srvVars == <<db, sessions, uuids, lastReq>>

vars == <<ctlVars, memVars, srvVars>>

---------------------------------------------------------------------------
(* Bounds of the model *)

\* Largest day id of the itineraries that are explored.
MaxDay == 3

\* Largest number of schedule rows of a day.
MaxItems == 2

---------------------------------------------------------------------------
(* Values *)

None == [present |-> FALSE, value |-> ""]

Some(v) == [present |-> TRUE, value |-> v]

Digit == <<"0", "1", "2", "3", "4", "5", "6", "7", "8", "9">>

RECURSIVE toString(_)
\* Number.prototype.toString of a non-negative integer.
toString(n) ==
    IF n < 10 THEN Digit[n + 1]
    ELSE toString(n \div 10) \o Digit[(n % 10) + 1]

\* The text rendered for the completion mark of a tab label (U+2713).
CheckMark == "U+2713"

Day(id, rows) == [id |-> id, rows |-> rows]

Page(itin, diary) == [itin |-> itin, diary |-> diary]

\* The pages that are explored, each with the itinerary parseItinerary
\* returns for it and its #diary section ("none" when the page has none,
\* "hidden" when it has one, empty and with class `hidden`): no day, with
\* and without diary section; days 1..MaxDay, the second with one row; days
\* 1 and MaxDay only (ids need not be contiguous), without diary section;
\* one day with MaxItems rows.
Pages ==
    { Page(<<>>, "none"),
      Page(<<>>, "hidden"),
      Page([i \in 1..MaxDay |-> Day(i, IF i = 2 THEN 1 ELSE 0)], "hidden"),
      Page(<<Day(1, 0), Day(MaxDay, 1)>>, "none"),
      Page(<<Day(1, MaxItems)>>, "hidden") }

\* The `dia` parameters a page address is opened with.
UrlInputs ==
    {None, Some(""), Some("2"), Some("diary"), Some("memories"), Some("99")}

\* Texts typed into the note prompt, as character sequences; the prompt
\* can also be cancelled.
NoteTexts == { <<>>, <<" ">>, <<"a">>, <<" ", "a", " ">> }

ItemKey(d, i) == "day-" \o toString(d) \o "-item-" \o toString(i)

\* The <<day id, row index>> pairs of the itinerary.
ItemsOf(itin) ==
    UNION {{<<itin[n].id, i>> : i \in 0..(itin[n].rows - 1)} : n \in DOMAIN itin}

KeysOf(itin) == {ItemKey(k[1], k[2]) : k \in ItemsOf(itin)}

---------------------------------------------------------------------------
(* Stored item values and the in-memory `saved` object *)

\* localStorage.getItem gives null for a key that was never written.
AbsentItem == [kind |-> "absent", completed |-> "unset", note |-> <<>>]

\* A stored text JSON.parse cannot decode: it throws a SyntaxError.
CorruptItem == [kind |-> "corrupt", completed |-> "unset", note |-> <<>>]

\* The stored text `null`, and the stored texts of the other values
\* that are falsy (0, false, "").
NullItem == [kind |-> "null", completed |-> "unset", note |-> <<>>]

\* The stored text of a number, a string or a boolean that is truthy: a
\* primitive value, which has neither `completed` nor `note`.
PrimItem == [kind |-> "prim", completed |-> "unset", note |-> <<>>]

\* try { saved = JSON.parse(localStorage.getItem(itemKey)) || {} } catch
\* { saved = {} }: the `saved` of the closures of a row. prim: saved is a
\* primitive value, to which no property can be added.
ParseSaved(v) ==
    IF v.kind = "obj"
    THEN [completed |-> v.completed, note |-> v.note, prim |-> FALSE]
    ELSE [completed |-> "unset", note |-> <<>>, prim |-> v.kind = "prim"]

\* JSON.stringify(saved)
Stringify(s) ==
    IF s.prim THEN PrimItem
    ELSE [kind |-> "obj", completed |-> s.completed, note |-> s.note]

\* updateDayProgress counting every stored value that is truthy.
StoredCompletedOfTruthy(v) ==
    \/ v.kind = "prim"
    \/ v.kind = "obj" /\ v.completed = "true"

\* StoredCompleted testing that the property exists (`'completed' in data`)
\* instead of its value.
StoredCompletedByPresence(v) == v.kind = "obj" /\ v.completed # "unset"

\* `data && data.completed` of the parsed stored value
StoredCompleted(v) == v.kind = "obj" /\ v.completed = "true"

\* `data && data.note` of the parsed stored value
StoredNote(v) == IF v.kind = "obj" THEN v.note ELSE <<>>

RECURSIVE TrimLeft(_)
TrimLeft(s) == IF s # <<>> /\ Head(s) = " " THEN TrimLeft(Tail(s)) ELSE s

RECURSIVE TrimRight(_)
TrimRight(s) ==
    IF s # <<>> /\ s[Len(s)] = " " THEN TrimRight(SubSeq(s, 1, Len(s) - 1))
    ELSE s

\* String.prototype.trim
\* note.trim() removing the leading whitespace only.
TrimStart(s) == TrimLeft(s)

Trim(s) == TrimRight(TrimLeft(s))

---------------------------------------------------------------------------
(* Tabs *)

TabIdOf(view) == "tab-" \o view

\* getIdFromTab: the tab's id attribute without its "tab-" prefix.
getIdFromTab(tab) ==
    IF tab.id = "" THEN ""
    ELSE IF Len(tab.id) >= 4 /\ SubSeq(tab.id, 1, 4) = "tab-"
         THEN SubSeq(tab.id, 5, Len(tab.id))
         ELSE tab.id

NewTab(view, label) ==
    [id |-> TabIdOf(view), selected |-> FALSE, tabindex |-> -1,
     active |-> FALSE, label |-> label]

\* itineraryData.find((d) => d.id.toString() === id.toString()): the
\* position of the first matching day, 0 when there is none.
FindDay(itin, id) ==
    LET hits == {i \in DOMAIN itin : toString(itin[i].id) = id}
    IN  IF hits = {} THEN 0 ELSE CHOOSE i \in hits : \A j \in hits : i <= j

\* document.getElementById('tab-' + dayId): position in the strip, or 0.
FindTab(ts, tabId) ==
    LET hits == {i \in DOMAIN ts : ts[i].id = tabId}
    IN  IF hits = {} THEN 0 ELSE CHOOSE i \in hits : \A j \in hits : i <= j

\* The completed counter of updateDayProgress.
CompletedCount(st, d, total) ==
    Cardinality({i \in 0..(total - 1) : StoredCompleted(st[ItemKey(d, i)])})

\* ProgressLabel with the comparison `completed === total` made before the
\* test `total > 0`.
ProgressLabelUnguarded(d, completed, total) ==
    LET baseLabel == "Dia " \o toString(d)
    IN  IF completed = total
        THEN baseLabel \o " " \o CheckMark
        ELSE IF total > 0
             THEN baseLabel \o " (" \o toString(completed) \o "/"
                      \o toString(total) \o ")"
             ELSE baseLabel

\* The label updateDayProgress writes for total rows of which completed
\* are done.
ProgressLabel(d, completed, total) ==
    LET baseLabel == "Dia " \o toString(d)
    IN  IF total > 0
        THEN IF completed = total
             THEN baseLabel \o " " \o CheckMark
             ELSE baseLabel \o " (" \o toString(completed) \o "/"
                      \o toString(total) \o ")"
        ELSE baseLabel

\* updateDayProgress(dayId): the strip after the call.
updateDayProgress(ts, itin, st, d) ==
    IF FindDay(itin, toString(d)) = 0 THEN ts
    ELSE LET total == itin[FindDay(itin, toString(d))].rows
             t == FindTab(ts, TabIdOf(toString(d)))
         IN  IF t = 0 THEN ts
             ELSE [ts EXCEPT ![t].label =
                      ProgressLabel(d, CompletedCount(st, d, total), total)]

RECURSIVE DayTabs(_, _, _)
\* The forEach of buildTabs: one button per day, its label computed by
\* updateDayProgress right after the button is appended.
DayTabs(itin, st, n) ==
    IF n = 0 THEN <<>>
    ELSE updateDayProgress(
             Append(DayTabs(itin, st, n - 1),
                    NewTab(toString(itin[n].id), "Dia " \o toString(itin[n].id))),
             itin, st, itin[n].id)

\* buildTabs: the strip it leaves in #tab-list.
buildTabs(itin, diarySection, st) ==
    DayTabs(itin, st, Len(itin))
        \o (IF diarySection THEN <<NewTab("diary", "Diario")>> ELSE <<>>)
        \o <<NewTab("memories", "Memorias")>>

\* The first loop of openTab: aria-selected, tabindex and class `active`.
SelectTab(ts, id) ==
    [i \in DOMAIN ts |->
        LET selected == getIdFromTab(ts[i]) = id
        IN  [ts[i] EXCEPT !.selected = selected,
                          !.tabindex = IF selected THEN 0 ELSE -1,
                          !.active = selected]]

\* tabs.findIndex((tab) => tab.getAttribute('aria-selected') === 'true'),
\* 1-based; 0 stands for the -1 of findIndex.
SelectedIndex(ts) ==
    LET hits == {i \in DOMAIN ts : ts[i].selected}
    IN  IF hits = {} THEN 0 ELSE CHOOSE i \in hits : \A j \in hits : i <= j

---------------------------------------------------------------------------
(* Diary aggregation *)

\* <<d, i>> before <<e, j>> in the scan of the stored item keys.
ItemBefore(a, b) == a[1] < b[1] \/ (a[1] = b[1] /\ a[2] < b[2])

RECURSIVE SortItems(_)
SortItems(S) ==
    IF S = {} THEN <<>>
    ELSE LET m == CHOOSE a \in S : \A b \in S \ {a} : ItemBefore(a, b)
         IN  <<m>> \o SortItems(S \ {m})

RECURSIVE EntriesOf(_, _)
EntriesOf(items, st) ==
    IF items = <<>> THEN <<>>
    ELSE LET k == Head(items)
             note == StoredNote(st[ItemKey(k[1], k[2])])
         IN  (IF note # <<>> THEN <<[day |-> k[1], note |-> note]>> ELSE <<>>)
                 \o EntriesOf(Tail(items), st)

\* The entries array of updateDiary after entries.sort: one entry per
\* stored item value with a note, ascending by day.
DiaryEntries(itin, st) == EntriesOf(SortItems(ItemsOf(itin)), st)

---------------------------------------------------------------------------
(* Panels *)

\* The rows initScheduleItemsForDay wires in a day panel: the closure's
\* `saved` object, the row's class `completed`, the text of .note-display.
PanelItems(st, d, total) ==
    [n \in 1..total |->
        LET saved == ParseSaved(st[ItemKey(d, n - 1)])
        IN  [saved |-> saved,
             completed |-> saved.completed = "true",
             noteDisplay |-> saved.note]]

NewPanel(view, gen) ==
    [id |-> "panel-" \o view, day |-> 0, gen |-> gen, hidden |-> FALSE,
     active |-> FALSE, prevBtn |-> FALSE, nextBtn |-> FALSE,
     items |-> <<>>, msgs |-> 0, section |-> FALSE]

\* window.tabPanels[id] = panel
Put(ps, id, panel) ==
    [k \in DOMAIN ps \cup {id} |-> IF k = id THEN panel ELSE ps[k]]

CountOf(bc, id) == IF id \in DOMAIN bc THEN bc[id] ELSE 0

Bump(bc, id) == [k \in DOMAIN bc \cup {id} |-> IF k = id THEN CountOf(bc, id) + 1 ELSE bc[k]]

\* createPanel(id). S carries tabs, tabPanels, buildCount and setupCalls;
\* E carries the itinerary, the storage and the diary section. The content
\* setupMemoriesPanel and loadMemoriesForDay put into the panel comes from
\* the backend and is not part of the panel record.
createPanel(id, S, E) ==
    LET gen == CountOf(S.buildCount, id) + 1
    IN  IF id = "diary"
        THEN [S EXCEPT
                !.tabPanels = Put(S.tabPanels, id,
                    [NewPanel(id, gen) EXCEPT
                        !.section = E.diarySection,
                        !.msgs = IF E.diarySection /\ ~E.diaryHidden
                                 THEN 0 ELSE 1]),
                !.buildCount = Bump(S.buildCount, id)]
        ELSE IF id = "memories"
        THEN [S EXCEPT
                !.tabPanels = Put(S.tabPanels, id, NewPanel(id, gen)),
                !.buildCount = Bump(S.buildCount, id),
                !.setupCalls = S.setupCalls + 1]
        ELSE LET n == FindDay(E.itin, id)
             IN  IF n = 0 THEN S
                 ELSE LET d == E.itin[n].id
                      IN  [S EXCEPT
                            !.tabPanels = Put(S.tabPanels, id,
                                [NewPanel(toString(d), gen) EXCEPT
                                    !.day = d,
                                    !.prevBtn = d > 1,
                                    !.nextBtn = d < Len(E.itin),
                                    !.items = PanelItems(E.st, d, E.itin[n].rows)]),
                            !.tabs = updateDayProgress(S.tabs, E.itin, E.st, d),
                            !.buildCount = Bump(S.buildCount, id)]

\* The second loop of openTab: show the panel registered under id, hide
\* the others.
ShowPanel(ps, id) ==
    [key \in DOMAIN ps |->
        [ps[key] EXCEPT !.active = (key = id), !.hidden = (key # id)]]

\* openTab calling createPanel without the test of window.tabPanels[id].
openTabRebuilding(id, S, E) ==
    LET S2 == createPanel(id, [S EXCEPT !.tabs = SelectTab(S.tabs, id)], E)
    IN  [S2 EXCEPT
            !.tabPanels = ShowPanel(S2.tabPanels, id),
            !.lastDay = IF id # "diary" /\ id # "memories" THEN Some(id)
                        ELSE S2.lastDay,
            !.dia = IF id = "diary" THEN None ELSE Some(id)]

\* openTab writing the `dia` parameter for every id, `diary` included.
openTabAlwaysSetsDia(id, S, E) ==
    LET S1 == [S EXCEPT !.tabs = SelectTab(S.tabs, id)]
        S2 == IF id \notin DOMAIN S1.tabPanels THEN createPanel(id, S1, E)
              ELSE S1
    IN  [S2 EXCEPT
            !.tabPanels = ShowPanel(S2.tabPanels, id),
            !.lastDay = IF id # "diary" /\ id # "memories" THEN Some(id)
                        ELSE S2.lastDay,
            !.dia = Some(id)]

\* openTab deleting the `dia` parameter for `memories` as it does for `diary`.
openTabClearsDiaForMemories(id, S, E) ==
    LET S1 == [S EXCEPT !.tabs = SelectTab(S.tabs, id)]
        S2 == IF id \notin DOMAIN S1.tabPanels THEN createPanel(id, S1, E)
              ELSE S1
    IN  [S2 EXCEPT
            !.tabPanels = ShowPanel(S2.tabPanels, id),
            !.lastDay = IF id # "diary" /\ id # "memories" THEN Some(id)
                        ELSE S2.lastDay,
            !.dia = IF id = "diary" \/ id = "memories" THEN None ELSE Some(id)]

\* openTab(id). S also carries lastDay and dia.
openTab(id, S, E) ==
    LET S1 == [S EXCEPT !.tabs = SelectTab(S.tabs, id)]
        S2 == IF id \notin DOMAIN S1.tabPanels THEN createPanel(id, S1, E)
              ELSE S1
    IN  [S2 EXCEPT
            !.tabPanels = ShowPanel(S2.tabPanels, id),
            !.lastDay = IF id # "diary" /\ id # "memories" THEN Some(id)
                        ELSE S2.lastDay,
            !.dia = IF id = "diary" THEN None ELSE Some(id)]

\* restoreLastDay reading the stored lastDay before the `dia` parameter.
restoreLastDayStoredFirst(itin, param, stored) ==
    LET id == IF stored.present THEN stored ELSE param
    IN  IF ~id.present \/ id.value = ""
        THEN IF Len(itin) > 0 THEN toString(itin[1].id) ELSE "diary"
        ELSE id.value

\* The id restoreLastDay hands to openTab.
restoreLastDay(itin, param, stored) ==
    LET id == IF param.present THEN param ELSE stored
    IN  IF ~id.present \/ id.value = ""
        THEN IF Len(itin) > 0 THEN toString(itin[1].id) ELSE "diary"
        ELSE id.value

\* updateDiary(). D carries tabPanels, diaryList and diaryHidden.
updateDiary(D, itin, st, diarySection) ==
    IF ~(diarySection /\ "diary" \in DOMAIN D.tabPanels) THEN D
    ELSE LET entries == DiaryEntries(itin, st)
             old == D.tabPanels["diary"].msgs
         IN  [tabPanels |-> [D.tabPanels EXCEPT !["diary"].msgs =
                                (IF old > 0 THEN old - 1 ELSE 0)
                                    + (IF Len(entries) = 0 THEN 1 ELSE 0)],
              diaryList |-> entries,
              diaryHidden |-> (Len(entries) = 0)]

\* The remainder operator of JavaScript.
JsMod(a, n) == IF a >= 0 THEN a % n ELSE 0 - ((0 - a) % n)

\* NewIndex without the remainder: the arrows stop at the ends of the strip.
NewIndexClamped(key, currentIndex, n) ==
    LET raw == CASE key = "ArrowRight" -> currentIndex + 1
                 [] key = "ArrowLeft" -> currentIndex - 1
                 [] key = "Home" -> 0
                 [] key = "End" -> n - 1
    IN  IF raw < 0 THEN 0 ELSE IF raw >= n THEN n - 1 ELSE raw

\* The position handleTabKeyNav moves to for a navigation key, 0-based,
\* from the 0-based currentIndex (-1 when no tab is selected).
NewIndex(key, currentIndex, n) ==
    LET raw == CASE key = "ArrowRight" -> JsMod(currentIndex + 1, n)
                 [] key = "ArrowLeft" -> JsMod(currentIndex - 1 + n, n)
                 [] key = "Home" -> 0
                 [] key = "End" -> n - 1
    IN  IF raw < 0 THEN 0 ELSE IF raw >= n THEN n - 1 ELSE raw

EmptyMap == [k \in {} |-> 0]

---------------------------------------------------------------------------
(* Backend: src/server.js *)

\* The accounts of USERS when the environment variable defines none.
USERS == [carina |-> "amore", gui |-> "amoreGui", admin |-> "password"]

\* The extensions fileFilter accepts.
AllowedExt ==
    {".png", ".jpg", ".jpeg", ".webp", ".gif", ".mp4", ".mov", ".mkv", ".avi"}

RECURSIVE StrTrimLeft(_)
StrTrimLeft(s) ==
    IF Len(s) > 0 /\ SubSeq(s, 1, 1) = " "
    THEN StrTrimLeft(SubSeq(s, 2, Len(s))) ELSE s

RECURSIVE StrTrimRight(_)
StrTrimRight(s) ==
    IF Len(s) > 0 /\ SubSeq(s, Len(s), Len(s)) = " "
    THEN StrTrimRight(SubSeq(s, 1, Len(s) - 1)) ELSE s

\* String.prototype.trim of a string value.
StrTrim(s) == StrTrimRight(StrTrimLeft(s))

IsDigit(c) == \E i \in DOMAIN Digit : Digit[i] = c

DigitValue(c) == (CHOOSE i \in DOMAIN Digit : Digit[i] = c) - 1

RECURSIVE DecimalValue(_)
\* The value of a string of decimal digits.
DecimalValue(s) ==
    IF Len(s) = 0 THEN 0
    ELSE DecimalValue(SubSeq(s, 1, Len(s) - 1)) * 10
             + DigitValue(SubSeq(s, Len(s), Len(s)))

\* isNaN(Number(s)) for a string of letters, digits and spaces that is not
\* blank: Number ignores the surrounding spaces and reads decimal digits.
IsNaN(s) == \E i \in 1..Len(StrTrim(s)) : ~IsDigit(SubSeq(StrTrim(s), i, i))

UpperCase == "ABCDEFGHIJKLMNOPQRSTUVWXYZ"

LowerCase == "abcdefghijklmnopqrstuvwxyz"

RECURSIVE toLowerCase(_)
\* String.prototype.toLowerCase of a string of ASCII characters.
toLowerCase(s) ==
    IF Len(s) = 0 THEN ""
    ELSE LET c == SubSeq(s, 1, 1)
             hits == {i \in 1..Len(UpperCase) : SubSeq(UpperCase, i, i) = c}
         IN  (IF hits = {} THEN c
              ELSE LET i == CHOOSE i \in hits : TRUE
                   IN  SubSeq(LowerCase, i, i))
                 \o toLowerCase(SubSeq(s, 2, Len(s)))

\* The search of q that compares the title and the text as they are stored.
includesExactCase(s, search) ==
    \E i \in 0..(Len(s) - Len(search)) : SubSeq(s, i + 1, i + Len(search)) = search

\* s.toLowerCase().includes(search)
includes(s, search) ==
    \E i \in 0..(Len(s) - Len(search)) :
        SubSeq(toLowerCase(s), i + 1, i + Len(search)) = search

\* The characters of s from position a to b are decimal digits.
Digits(s, a, b) == \A i \in a..b : IsDigit(SubSeq(s, i, i))

\* new Date(s) for the date form YYYY-MM-DD (midnight UTC) and the form
\* YYYY-MM-DDTHH:MM:SS.sssZ of toISOString; every other string the
\* specifications use holds no date and gives an Invalid Date. t counts the
\* minutes in a calendar of months of 31 days, which orders the valid dates
\* as their time values do.
DateOf(s) ==
    LET dateForm == /\ Len(s) \in {10, 24}
                    /\ Digits(s, 1, 4) /\ SubSeq(s, 5, 5) = "-"
                    /\ Digits(s, 6, 7) /\ SubSeq(s, 8, 8) = "-"
                    /\ Digits(s, 9, 10)
        timeForm == /\ SubSeq(s, 11, 11) = "T" /\ Digits(s, 12, 13)
                    /\ SubSeq(s, 14, 14) = ":" /\ Digits(s, 15, 16)
                    /\ SubSeq(s, 17, 17) = ":" /\ Digits(s, 18, 19)
                    /\ SubSeq(s, 20, 20) = "." /\ Digits(s, 21, 23)
                    /\ SubSeq(s, 24, 24) = "Z"
        y == DecimalValue(SubSeq(s, 1, 4))
        mo == DecimalValue(SubSeq(s, 6, 7))
        d == DecimalValue(SubSeq(s, 9, 10))
        h == IF Len(s) = 24 THEN DecimalValue(SubSeq(s, 12, 13)) ELSE 0
        mi == IF Len(s) = 24 THEN DecimalValue(SubSeq(s, 15, 16)) ELSE 0
    IN  IF /\ dateForm
           /\ Len(s) = 24 => timeForm
           /\ mo \in 1..12 /\ d \in 1..31 /\ h \in 0..23 /\ mi \in 0..59
        THEN [valid |-> TRUE,
              t |-> (((y * 12 + mo) * 31 + d) * 24 + h) * 60 + mi]
        ELSE [valid |-> FALSE, t |-> 0]

\* The reading of the clock: new Date().toISOString(). The specifications
\* do not let time pass.
Clock == "2025-06-01T12:00:00.000Z"

\* The field f of a request body, "" when the body has no such field.
Field(body, f) == IF f \in DOMAIN body THEN body[f] ELSE ""

\* The field f of the body of a PUT, None when the body has no such field.
OptField(body, f) == IF f \in DOMAIN body THEN body[f] ELSE None

RECURSIVE SplitTags(_, _)
\* String(tags).split(',').map((s) => s.trim()).filter((s) => s); cur is
\* the part read since the last comma.
SplitTags(s, cur) ==
    IF Len(s) = 0
    THEN IF StrTrim(cur) = "" THEN <<>> ELSE <<StrTrim(cur)>>
    ELSE IF SubSeq(s, 1, 1) = ","
    THEN (IF StrTrim(cur) = "" THEN <<>> ELSE <<StrTrim(cur)>>)
             \o SplitTags(SubSeq(s, 2, Len(s)), "")
    ELSE SplitTags(SubSeq(s, 2, Len(s)), cur \o SubSeq(s, 1, 1))

\* The `day` property of a stored memory: undefined, a number or a string.
UndefinedDay == [kind |-> "undefined", n |-> 0, s |-> ""]

\* The day a request body field is stored as; the field is None when the
\* body has no such field.
DayOfField(day) ==
    IF day.present /\ StrTrim(day.value) # ""
    THEN IF IsNaN(day.value)
         THEN [kind |-> "string", n |-> 0, s |-> day.value]
         ELSE [kind |-> "number", n |-> DecimalValue(StrTrim(day.value)), s |-> ""]
    ELSE UndefinedDay

\* String(m.day) of a stored day that is not undefined.
DayString(v) == IF v.kind = "number" THEN toString(v.n) ELSE v.s

EmptyDB == [memories |-> <<>>, comments |-> <<>>]

\* A response: its status (0 when the request failed on the network), whether
\* its body is JSON, and the `error`, `user` and data of the body.
Response(status, error, user, data) ==
    [status |-> status, json |-> TRUE, error |-> error, user |-> user,
     data |-> data]

NetworkError == [Response(0, "", None, <<>>) EXCEPT !.json = FALSE]

\* The answer of the default error handler of Express to an error raised
\* by a middleware: status 500 with an HTML body.
ServerError == [Response(500, "", None, <<>>) EXCEPT !.json = FALSE]

\* The answer of requireAuth to a request without session.
Unauthorized == Response(401, "Nao autorizado", None, <<>>)

NotFound == Response(404, "Memoria nao encontrada", None, <<>>)

Forbidden == Response(403, "Acesso negado", None, <<>>)

\* A route handler takes S, the database file, the session of the request
\* and the number of identifiers uuidv4 has produced, and gives them back
\* with the response res.
Reply(S, res) == [db |-> S.db, sess |-> S.sess, uuids |-> S.uuids, res |-> res]

\* POST /auth/login
authLogin(S, username, password) ==
    IF username = "" \/ password = ""
    THEN Reply(S, Response(400, "Usuario e senha sao obrigatorios", None, <<>>))
    ELSE IF username \in DOMAIN USERS /\ USERS[username] = password
    THEN [Reply(S, Response(200, "", None, <<>>)) EXCEPT !.sess = Some(username)]
    ELSE Reply(S, Response(401, "Credenciais invalidas", None, <<>>))

\* POST /auth/logout
authLogout(S) == [Reply(S, Response(200, "", None, <<>>)) EXCEPT !.sess = None]

\* GET /auth/me answering null for every session.
authMeAnonymous(S) == Reply(S, Response(200, "", None, <<>>))

\* GET /auth/me
authMe(S) == Reply(S, Response(200, "", S.sess, <<>>))

\* The files of a multipart body that upload.array stores before fileFilter
\* rejects one: all of them when none is rejected.
RECURSIVE AcceptedFiles(_)
AcceptedFiles(media) ==
    IF media = <<>> \/ Head(media) \notin AllowedExt THEN <<>>
    ELSE <<Head(media)>> \o AcceptedFiles(Tail(media))

\* The paths of the stored files: '/uploads/' + uuid + ext.
StoredFiles(media, issued) ==
    [i \in DOMAIN media |-> [uuid |-> issued + i, ext |-> media[i]]]

\* A query string without parameters; a parameter that is "" (None for
\* day) is absent or empty.
NoFilter ==
    [tag |-> "", status |-> "", day |-> None, from |-> "", to |-> "", q |-> ""]

\* The filters of GET /memories, in the order of the handler.
Filtered(memories, query) ==
    LET byTag ==
            IF query.tag # ""
            THEN SelectSeq(memories,
                     LAMBDA m : \E i \in DOMAIN m.tags :
                                    toLowerCase(m.tags[i]) = toLowerCase(query.tag))
            ELSE memories
        byStatus ==
            IF query.status # ""
            THEN SelectSeq(byTag, LAMBDA m : m.status = query.status)
            ELSE byTag
        byDay ==
            IF query.day.present /\ StrTrim(query.day.value) # ""
            THEN SelectSeq(byStatus,
                     LAMBDA m : /\ m.day.kind # "undefined"
                                /\ DayString(m.day) = query.day.value)
            ELSE byStatus
        byFrom ==
            IF query.from # ""
            THEN SelectSeq(byDay,
                     LAMBDA m : /\ DateOf(m.date).valid /\ DateOf(query.from).valid
                                /\ DateOf(m.date).t >= DateOf(query.from).t)
            ELSE byDay
        byTo ==
            IF query.to # ""
            THEN SelectSeq(byFrom,
                     LAMBDA m : /\ DateOf(m.date).valid /\ DateOf(query.to).valid
                                /\ DateOf(m.date).t <= DateOf(query.to).t)
            ELSE byFrom
    IN  IF query.q # ""
        THEN SelectSeq(byTo,
                 LAMBDA m :
                     \/ m.title # "" /\ includes(m.title, toLowerCase(query.q))
                     \/ m.text # "" /\ includes(m.text, toLowerCase(query.q)))
        ELSE byTo

\* GET /memories
getMemories(S, query) ==
    IF ~S.sess.present THEN Reply(S, Unauthorized)
    ELSE Reply(S, Response(200, "", None,
                           Filtered(S.db.memories, query)))

\* POST /memories
postMemories(S, body) ==
    IF ~S.sess.present THEN Reply(S, Unauthorized)
    ELSE LET files == AcceptedFiles(body.media)
             U == [S EXCEPT !.uuids = S.uuids + Len(files)]
         IN  IF Len(files) < Len(body.media) THEN Reply(U, ServerError)
             ELSE IF body.title = ""
             THEN Reply(U, Response(400, "Titulo e obrigatorio", None, <<>>))
             ELSE LET memory ==
                          [id |-> U.uuids + 1,
                           user |-> S.sess.value,
                           title |-> body.title,
                           text |-> Field(body, "text"),
                           date |-> IF Field(body, "date") # ""
                                    THEN body.date ELSE Clock,
                           tags |-> SplitTags(Field(body, "tags"), ""),
                           status |-> IF body.status # "" THEN body.status
                                      ELSE "draft",
                           media |-> StoredFiles(files, S.uuids),
                           day |-> DayOfField(body.day),
                           createdAt |-> Clock,
                           reactions |-> EmptyMap]
                  IN  [Reply(U, Response(200, "", None, <<memory>>)) EXCEPT
                          !.uuids = U.uuids + 1,
                          !.db.memories = Append(S.db.memories, memory)]

\* db.memories.findIndex((m) => m.id === req.params.id), 0 for -1.
FindMemory(file, id) ==
    LET hits == {i \in DOMAIN file.memories : file.memories[i].id = id}
    IN  IF hits = {} THEN 0 ELSE CHOOSE i \in hits : \A j \in hits : i <= j

\* PUT /memories/:id replacing the media of the memory by the new files.
UpdatedMemoryReplacingMedia(mem, body, newFiles) ==
    [mem EXCEPT
        !.title = IF body.title.present THEN body.title.value ELSE @,
        !.status = IF body.status.present THEN body.status.value ELSE @,
        !.day = IF body.day.present THEN DayOfField(body.day) ELSE @,
        !.media = IF newFiles # <<>> THEN newFiles ELSE @]

\* The memory after the assignments of PUT /memories/:id (updatedAt, which
\* no handler reads, is left out of the records).
UpdatedMemory(mem, body, newFiles) ==
    [mem EXCEPT
        !.title = IF body.title.present THEN body.title.value ELSE @,
        !.text = IF OptField(body, "text").present THEN body.text.value ELSE @,
        !.date = IF OptField(body, "date").present THEN body.date.value ELSE @,
        !.tags = IF OptField(body, "tags").present
                 THEN SplitTags(body.tags.value, "") ELSE @,
        !.status = IF body.status.present THEN body.status.value ELSE @,
        !.day = IF body.day.present THEN DayOfField(body.day) ELSE @,
        !.media = @ \o newFiles]

\* PUT /memories/:id without the comparison of mem.user with the session.
putMemoriesUnowned(S, id, body) ==
    IF ~S.sess.present THEN Reply(S, Unauthorized)
    ELSE LET files == AcceptedFiles(body.media)
             U == [S EXCEPT !.uuids = S.uuids + Len(files)]
             idx == FindMemory(S.db, id)
         IN  IF Len(files) < Len(body.media) THEN Reply(U, ServerError)
             ELSE IF idx = 0 THEN Reply(U, NotFound)
             ELSE LET mem == UpdatedMemory(S.db.memories[idx], body,
                                           StoredFiles(files, S.uuids))
                  IN  [Reply(U, Response(200, "", None, <<mem>>)) EXCEPT
                          !.db.memories[idx] = mem]

\* PUT /memories/:id
putMemories(S, id, body) ==
    IF ~S.sess.present THEN Reply(S, Unauthorized)
    ELSE LET files == AcceptedFiles(body.media)
             U == [S EXCEPT !.uuids = S.uuids + Len(files)]
             idx == FindMemory(S.db, id)
         IN  IF Len(files) < Len(body.media) THEN Reply(U, ServerError)
             ELSE IF idx = 0 THEN Reply(U, NotFound)
             ELSE IF S.db.memories[idx].user # S.sess.value
             THEN Reply(U, Forbidden)
             ELSE LET mem == UpdatedMemory(S.db.memories[idx], body,
                                           StoredFiles(files, S.uuids))
                  IN  [Reply(U, Response(200, "", None, <<mem>>)) EXCEPT
                          !.db.memories[idx] = mem]

\* DELETE /memories/:id leaving the comments as they are.
deleteMemoriesKeepingComments(S, id) ==
    IF ~S.sess.present THEN Reply(S, Unauthorized)
    ELSE LET idx == FindMemory(S.db, id)
         IN  IF idx = 0 THEN Reply(S, NotFound)
             ELSE IF S.db.memories[idx].user # S.sess.value
             THEN Reply(S, Forbidden)
             ELSE [Reply(S, Response(200, "", None, <<>>)) EXCEPT
                      !.db.memories =
                          SubSeq(S.db.memories, 1, idx - 1)
                              \o SubSeq(S.db.memories, idx + 1,
                                        Len(S.db.memories))]

\* DELETE /memories/:id
deleteMemories(S, id) ==
    IF ~S.sess.present THEN Reply(S, Unauthorized)
    ELSE LET idx == FindMemory(S.db, id)
         IN  IF idx = 0 THEN Reply(S, NotFound)
             ELSE IF S.db.memories[idx].user # S.sess.value
             THEN Reply(S, Forbidden)
             ELSE [Reply(S, Response(200, "", None, <<>>)) EXCEPT
                      !.db.memories =
                          SubSeq(S.db.memories, 1, idx - 1)
                              \o SubSeq(S.db.memories, idx + 1,
                                        Len(S.db.memories)),
                      !.db.comments =
                          SelectSeq(S.db.comments, LAMBDA c : c.memoryId # id)]

\* POST /memories/:id/comments
postComments(S, id, text) ==
    IF ~S.sess.present THEN Reply(S, Unauthorized)
    ELSE IF StrTrim(text) = ""
    THEN Reply(S, Response(400, "Comentario vazio", None, <<>>))
    ELSE IF FindMemory(S.db, id) = 0 THEN Reply(S, NotFound)
    ELSE LET comment == [id |-> S.uuids + 1, memoryId |-> id,
                         user |-> S.sess.value, text |-> text,
                         reactions |-> EmptyMap]
         IN  [Reply(S, Response(200, "", None, <<comment>>)) EXCEPT
                 !.uuids = S.uuids + 1,
                 !.db.comments = Append(S.db.comments, comment)]

\* GET /memories/:id
getMemory(S, id) ==
    IF ~S.sess.present THEN Reply(S, Unauthorized)
    ELSE IF FindMemory(S.db, id) = 0 THEN Reply(S, NotFound)
    ELSE Reply(S, Response(200, "", None,
             <<[memory |-> S.db.memories[FindMemory(S.db, id)],
                comments |-> SelectSeq(S.db.comments,
                                       LAMBDA c : c.memoryId = id)]>>))

\* GET /memories/:id/comments
getComments(S, id) ==
    IF ~S.sess.present THEN Reply(S, Unauthorized)
    ELSE Reply(S, Response(200, "", None,
                           SelectSeq(S.db.comments, LAMBDA c : c.memoryId = id)))

\* The values a property of a reactions object holds.
Count(n) == [kind |-> "number", n |-> n, s |-> ""]

Text(s) == [kind |-> "string", n |-> 0, s |-> s]

\* The properties every object inherits from Object.prototype; their
\* values are functions, that of __proto__ is the prototype object.
ObjectPrototype ==
    {"constructor", "hasOwnProperty", "isPrototypeOf", "propertyIsEnumerable",
     "toLocaleString", "toString", "valueOf", "__proto__"}

\* String(f) of the inherited function reactions[key].
FunctionText(key) ==
    "function " \o (IF key = "constructor" THEN "Object" ELSE key)
        \o "() { [native code] }"

\* (reactions[emoji] || 0) + 1. The read of reactions[emoji] finds the own
\* property, else the inherited one; + joins strings when the left operand
\* is not a number.
Incremented(reactions, emoji) ==
    IF emoji \in DOMAIN reactions
    THEN LET old == reactions[emoji]
         IN  IF old.kind = "number" THEN Count(old.n + 1)
             ELSE IF old.s = "" THEN Count(1)
             ELSE Text(old.s \o "1")
    ELSE IF emoji = "__proto__" THEN Text("[object Object]1")
    ELSE IF emoji \in ObjectPrototype THEN Text(FunctionText(emoji) \o "1")
    ELSE Count(1)

\* reactions[emoji] = value. The setter of __proto__ ignores a value that
\* is not an object.
Assigned(reactions, emoji, value) ==
    IF emoji = "__proto__" THEN reactions
    ELSE [k \in DOMAIN reactions \cup {emoji} |->
             IF k = emoji THEN value ELSE reactions[k]]

\* POST /memories/:id/reactions
postMemoryReactions(S, id, emoji) ==
    IF ~S.sess.present THEN Reply(S, Unauthorized)
    ELSE IF emoji = ""
    THEN Reply(S, Response(400, "Emoji e obrigatorio", None, <<>>))
    ELSE LET idx == FindMemory(S.db, id)
         IN  IF idx = 0 THEN Reply(S, NotFound)
             ELSE LET reactions ==
                          Assigned(S.db.memories[idx].reactions, emoji,
                              Incremented(S.db.memories[idx].reactions, emoji))
                  IN  [Reply(S, Response(200, "", None, <<reactions>>)) EXCEPT
                          !.db.memories[idx].reactions = reactions]

\* db.comments.find((c) => c.id === req.params.id), 0 for none.
FindComment(file, id) ==
    LET hits == {i \in DOMAIN file.comments : file.comments[i].id = id}
    IN  IF hits = {} THEN 0 ELSE CHOOSE i \in hits : \A j \in hits : i <= j

\* POST /comments/:id/reactions
postCommentReactions(S, id, emoji) ==
    IF ~S.sess.present THEN Reply(S, Unauthorized)
    ELSE IF emoji = ""
    THEN Reply(S, Response(400, "Emoji e obrigatorio", None, <<>>))
    ELSE LET idx == FindComment(S.db, id)
         IN  IF idx = 0
             THEN Reply(S, Response(404, "Comentario nao encontrado", None, <<>>))
             ELSE LET reactions ==
                          Assigned(S.db.comments[idx].reactions, emoji,
                              Incremented(S.db.comments[idx].reactions, emoji))
                  IN  [Reply(S, Response(200, "", None, <<reactions>>)) EXCEPT
                          !.db.comments[idx].reactions = reactions]

\* GET /export answering without looking at the session.
exportDataOpen(S) ==
    Reply(S, Response(200, "", None,
        [i \in DOMAIN S.db.memories |->
            [memory |-> S.db.memories[i],
             mediaLinks |-> [j \in DOMAIN S.db.memories[i].media |->
                                [origin |-> TRUE,
                                 path |-> S.db.memories[i].media[j]]],
             comments |-> SelectSeq(S.db.comments,
                              LAMBDA c : c.memoryId = S.db.memories[i].id)]]))

\* GET /export: every memory with the links of its media, the origin of
\* the request put before each path, and with its comments.
exportData(S) ==
    IF ~S.sess.present THEN Reply(S, Unauthorized)
    ELSE Reply(S, Response(200, "", None,
        [i \in DOMAIN S.db.memories |->
            [memory |-> S.db.memories[i],
             mediaLinks |-> [j \in DOMAIN S.db.memories[i].media |->
                                [origin |-> TRUE,
                                 path |-> S.db.memories[i].media[j]]],
             comments |-> SelectSeq(S.db.comments,
                              LAMBDA c : c.memoryId = S.db.memories[i].id)]]))

---------------------------------------------------------------------------
(* Memories widget (src/unnamed/part_000) and the memories blocks of the   *)
(* itinerary side (src/script.js)                                          *)

\* The `memories` argument of the render functions: null, or a list.
NoData == [present |-> FALSE, value |-> <<>>]

Data(list) == [present |-> TRUE, value |-> list]

\* A request of the page: its kind, the day of a day-scoped fetch (0
\* otherwise) and the status filter of a list fetch.
Request(kind, day, status) == [kind |-> kind, day |-> day, status |-> status]

\* The query string of a GET /memories request.
QueryOf(req) ==
    [NoFilter EXCEPT
        !.status = req.status,
        !.day = IF req.kind = "day" THEN Some(toString(req.day)) ELSE None]

\* The publish form after publishForm.reset().
EmptyForm == [title |-> "", day |-> "", media |-> <<>>]

\* The FormData of the publish form; the status select stays on `draft`.
FormBody(form) ==
    [title |-> form.title, status |-> "draft", day |-> Some(form.day),
     media |-> form.media]

NoList == [kind |-> "none", data |-> <<>>]

\* The widget before setupMemoriesPanel has built it: for each section
\* whether it is displayed, the three message lines, the progress bar, the
\* publish form, the status filter, the list section, and (history) the
\* caller of the last showLogin, "none" after showApp.
Unmounted ==
    [mounted |-> FALSE, login |-> FALSE, publish |-> FALSE, filter |-> FALSE,
     list |-> FALSE, logout |-> FALSE, loginError |-> "", publishError |-> "",
     publishSuccess |-> "", progress |-> FALSE, form |-> EmptyForm,
     statusFilter |-> "", listView |-> NoList, outBy |-> "none"]

\* The widget setupMemoriesPanel builds, before checkAuth is answered.
Mounted == [Unmounted EXCEPT !.mounted = TRUE, !.login = TRUE]

\* #cover-memories without memories: class `hidden`, no content.
ClearedCover == [hidden |-> TRUE, filled |-> FALSE, data |-> <<>>]

\* A day panel without memories block; lastCall (history) is the kind of
\* the last renderDayMemories call made for the panel.
FreshDayPanel == [containers |-> <<>>, lastCall |-> "none"]

\* renderDayMemories appending a new container on every call with a list.
renderDayMemoriesAppending(panels, dayId, memories) ==
    IF dayId \notin DOMAIN panels THEN panels
    ELSE LET containers == panels[dayId].containers
         IN  IF ~memories.present
             THEN [panels EXCEPT ![dayId] =
                      [containers |-> IF containers # <<>> THEN Tail(containers)
                                      ELSE <<>>,
                       lastCall |-> "null"]]
             ELSE [panels EXCEPT ![dayId] =
                      [containers |-> Append(containers, memories.value),
                       lastCall |-> "list"]]

\* renderDayMemories building the memories block of a day whose panel is
\* not registered.
renderDayMemoriesCreating(panels, dayId, memories) ==
    IF ~memories.present THEN panels
    ELSE [d \in DOMAIN panels \cup {dayId} |->
            [containers |-> <<memories.value>>, lastCall |-> "list"]]

\* renderDayMemories(dayId, memories): the .memories-container elements of
\* the day panels after the call.
renderDayMemories(panels, dayId, memories) ==
    IF dayId \notin DOMAIN panels THEN panels
    ELSE LET containers == panels[dayId].containers
         IN  IF ~memories.present
             THEN [panels EXCEPT ![dayId] =
                      [containers |-> IF containers # <<>> THEN Tail(containers)
                                      ELSE <<>>,
                       lastCall |-> "null"]]
             ELSE [panels EXCEPT ![dayId] =
                      [containers |-> IF containers = <<>>
                                      THEN <<memories.value>>
                                      ELSE [containers EXCEPT ![1] = memories.value],
                       lastCall |-> "list"]]

\* renderCoverMemories(memories)
renderCoverMemories(memories) ==
    IF ~memories.present THEN ClearedCover
    ELSE [hidden |-> FALSE, filled |-> TRUE, data |-> memories.value]

RECURSIVE ClearDays(_, _, _)
\* The forEach of showLogin: renderDayMemories(day.id, null) for the first
\* n days.
ClearDays(panels, itin, n) ==
    IF n = 0 THEN panels
    ELSE renderDayMemories(ClearDays(panels, itin, n - 1), itin[n].id, NoData)

\* refreshAllDayMemories loading the memories of no day.
refreshNoDayMemories(itin) == SubSeq(itin, 1, 0)

\* refreshAllDayMemories: the requests of loadMemoriesForDay for each day.
refreshAllDayMemories(itin) ==
    [n \in DOMAIN itin |-> Request("day", itin[n].id, "")]

\* The request of loadMemories, built from the filter inputs.
loadMemories(W) == Request("list", 0, W.statusFilter)

\* A handler takes C, the widget, the day panels and the cover, and gives
\* them back with the requests it sent.
Client(W, panels, cv) ==
    [widget |-> W, dayMemories |-> panels, cover |-> cv, sent |-> <<>>]

\* showLogin leaving the memories blocks of the days and the cover alone.
showLoginKeepingBlocks(C, itin, by) ==
    [C EXCEPT
        !.widget = [@ EXCEPT !.login = TRUE, !.publish = FALSE,
                             !.filter = FALSE, !.list = FALSE,
                             !.logout = FALSE, !.loginError = "",
                             !.publishError = "", !.publishSuccess = "",
                             !.outBy = by]]

\* showLogin(); by is "probe" when checkAuth calls it, "exit" when the
\* logout handler or the handler of a 401 does.
showLogin(C, itin, by) ==
    [C EXCEPT
        !.widget = [@ EXCEPT !.login = TRUE, !.publish = FALSE,
                             !.filter = FALSE, !.list = FALSE,
                             !.logout = FALSE, !.loginError = "",
                             !.publishError = "", !.publishSuccess = "",
                             !.outBy = by],
        !.dayMemories = ClearDays(@, itin, Len(itin)),
        !.cover = renderCoverMemories(NoData)]

\* showApp leaving the login section displayed.
showAppKeepingLogin(C, itin) ==
    [C EXCEPT
        !.widget = [@ EXCEPT !.publish = TRUE,
                             !.filter = TRUE, !.list = TRUE,
                             !.logout = TRUE, !.loginError = "",
                             !.publishError = "", !.publishSuccess = "",
                             !.outBy = "none"],
        !.sent = @ \o <<loadMemories(C.widget)>> \o refreshAllDayMemories(itin)
                    \o <<Request("cover", 0, "")>>]

\* showApp()
showApp(C, itin) ==
    [C EXCEPT
        !.widget = [@ EXCEPT !.login = FALSE, !.publish = TRUE,
                             !.filter = TRUE, !.list = TRUE,
                             !.logout = TRUE, !.loginError = "",
                             !.publishError = "", !.publishSuccess = "",
                             !.outBy = "none"],
        !.sent = @ \o <<loadMemories(C.widget)>> \o refreshAllDayMemories(itin)
                    \o <<Request("cover", 0, "")>>]

\* checkAuth after the answer to GET /auth/me.
checkAuth(C, itin, res) ==
    IF res.json /\ res.user.present THEN showApp(C, itin)
    ELSE showLogin(C, itin, "probe")

\* The submit handler of the login form after the answer to
\* POST /auth/login.
loginAnswered(C, itin, res) ==
    IF ~res.json THEN [C EXCEPT !.widget.loginError = "Erro ao conectar."]
    ELSE IF res.status >= 200 /\ res.status <= 299 THEN showApp(C, itin)
    ELSE [C EXCEPT !.widget.loginError =
             IF res.error # "" THEN res.error ELSE "Falha no login."]

\* renderMemories(memories): the content of the list section.
renderMemories(data) ==
    IF data = <<>> THEN [kind |-> "empty", data |-> <<>>]
    ELSE [kind |-> "cards", data |-> data]

\* loadMemories ignoring status 401.
loadMemoriesAnsweredKeepingSession(C, itin, res) ==
    IF ~res.json
    THEN [C EXCEPT !.widget.listView = [kind |-> "error", data |-> <<>>]]
    ELSE [C EXCEPT !.widget.listView = renderMemories(res.data)]

\* loadMemories dropping the answer when the list section already shows
\* the answer to an earlier fetch.
loadMemoriesAnsweredFirstWins(C, itin, res) ==
    IF res.status = 401 THEN showLogin(C, itin, "exit")
    ELSE IF ~res.json
    THEN [C EXCEPT !.widget.listView = [kind |-> "error", data |-> <<>>]]
    ELSE IF C.widget.listView.kind \in {"cards", "empty"} THEN C
    ELSE [C EXCEPT !.widget.listView = renderMemories(res.data)]

\* loadMemories after the answer to GET /memories.
loadMemoriesAnswered(C, itin, res) ==
    IF res.status = 401 THEN showLogin(C, itin, "exit")
    ELSE IF ~res.json
    THEN [C EXCEPT !.widget.listView = [kind |-> "error", data |-> <<>>]]
    ELSE [C EXCEPT !.widget.listView = renderMemories(res.data)]

\* loadMemoriesForDay(dayId) after the answer to GET /memories?day=dayId.
loadMemoriesForDayAnswered(C, dayId, res) ==
    [C EXCEPT !.dayMemories =
        renderDayMemories(@, dayId,
            IF res.status = 401 \/ ~res.json THEN NoData ELSE Data(res.data))]

\* loadCoverMemories after the answer to GET /memories.
\* loadCoverMemories rendering the whole list of the answer.
loadCoverMemoriesAnsweredUnfiltered(C, res) ==
    [C EXCEPT !.cover =
        renderCoverMemories(
            IF res.status = 401 \/ ~res.json THEN NoData ELSE Data(res.data))]

loadCoverMemoriesAnswered(C, res) ==
    [C EXCEPT !.cover =
        renderCoverMemories(
            IF res.status = 401 \/ ~res.json THEN NoData
            ELSE Data(SelectSeq(res.data,
                          LAMBDA mem : \/ mem.day.kind = "undefined"
                                       \/ /\ mem.day.kind = "string"
                                          /\ StrTrim(mem.day.s) = "")))]

\* uploadMemory clearing the form whatever the status.
uploadAnsweredClearing(C, itin, res) ==
    LET C1 == [C EXCEPT !.widget.progress = FALSE, !.widget.form = EmptyForm]
    IN  IF res.status = 0
        THEN [C1 EXCEPT !.widget.publishError = "Erro ao enviar memoria."]
        ELSE IF res.status = 200 \/ res.status = 201
        THEN [C1 EXCEPT
                !.widget.publishSuccess = "Memoria salva com sucesso!",
                !.sent = @ \o <<loadMemories(C.widget)>>
                            \o refreshAllDayMemories(itin)
                            \o <<Request("cover", 0, "")>>]
        ELSE IF res.status = 401 THEN showLogin(C1, itin, "exit")
        ELSE [C1 EXCEPT !.widget.publishError =
                 IF res.json /\ res.error # "" THEN res.error
                 ELSE "Falha ao salvar memoria."]

\* uploadMemory after xhr.onerror (status 0) or xhr.onload.
uploadAnswered(C, itin, res) ==
    LET C1 == [C EXCEPT !.widget.progress = FALSE]
    IN  IF res.status = 0
        THEN [C1 EXCEPT !.widget.publishError = "Erro ao enviar memoria."]
        ELSE IF res.status = 200 \/ res.status = 201
        THEN [C1 EXCEPT
                !.widget.publishSuccess = "Memoria salva com sucesso!",
                !.widget.form = EmptyForm,
                !.sent = @ \o <<loadMemories(C.widget)>>
                            \o refreshAllDayMemories(itin)
                            \o <<Request("cover", 0, "")>>]
        ELSE IF res.status = 401 THEN showLogin(C1, itin, "exit")
        ELSE [C1 EXCEPT !.widget.publishError =
                 IF res.json /\ res.error # "" THEN res.error
                 ELSE "Falha ao salvar memoria."]

---------------------------------------------------------------------------
(* The page session *)

\* The clients of the backend; the page runs in the first.
Clients == {"A", "B"}

Browser == "A"

NoRequest == [client |-> "", op |-> "none", id |-> 0, res |-> NetworkError]

\* The memories widget is not mounted and no request was sent.
MemIdle ==
    /\ widget = Unmounted
    /\ dayMemories = EmptyMap
    /\ cover = ClearedCover
    /\ net = {}

\* The backend has an empty database file and no session.
SrvIdle ==
    /\ db = EmptyDB
    /\ sessions = [c \in Clients |-> None]
    /\ uuids = 0
    /\ lastReq = NoRequest

\* lastOp: the handler that ran last; for an arrow key the position of the
\* tab that was selected when it was pressed (0 for none); for a reload,
\* and the startup that follows it, the view that was active at the reload;
\* for a startup the `dia` parameter and the stored lastDay it found; for
\* an answered note prompt the view and the position of the row, and the
\* text of the answer.
NoOp == [op |-> "none", from |-> 0, prev |-> "", param |-> None,
         stored |-> None]

Env == [itin |-> itineraryData, st |-> store,
        diarySection |-> (diaryMarkup # "none"),
        diaryHidden |-> diaryHidden]

Session == [tabs |-> tabs, tabPanels |-> tabPanels, buildCount |-> buildCount,
            setupCalls |-> setupCalls, lastDay |-> lastDay, dia |-> dia]

\* The assignments every activation makes from the result S of openTab(id).
Activated(id, S) ==
    /\ tabs' = S.tabs
    /\ tabPanels' = S.tabPanels
    /\ buildCount' = S.buildCount
    /\ setupCalls' = S.setupCalls
    /\ lastDay' = S.lastDay
    /\ dia' = S.dia
    /\ lastDayView' = IF FindDay(itineraryData, id) # 0 THEN Some(id)
                      ELSE lastDayView
    /\ lastOpened' = [id |-> id, hit |-> id \in DOMAIN tabPanels]

Init ==
    /\ \E page \in Pages :
            /\ itineraryData = page.itin
            /\ diaryMarkup = page.diary
    /\ loaded = FALSE
    /\ dia \in UrlInputs
    /\ lastDay = None
    /\ store = [k \in KeysOf(itineraryData) |-> AbsentItem]
    /\ tabs = <<>>
    /\ tabPanels = EmptyMap
    /\ focus = 0
    /\ diaryList = <<>>
    /\ diaryHidden = TRUE
    /\ buildCount = EmptyMap
    /\ setupCalls = 0
    /\ lastDayView = None
    /\ lastOpened = [id |-> "", hit |-> FALSE]
    /\ lastOp = NoOp
    /\ cards = <<>>
    /\ MemIdle
    /\ SrvIdle

\* The document before the DOMContentLoaded handler has run, for a page
\* with the itinerary itin and without diary section.
CtlIdle(itin) ==
    /\ itineraryData = itin
    /\ diaryMarkup = "none"
    /\ loaded = FALSE
    /\ dia = None
    /\ lastDay = None
    /\ store = [k \in KeysOf(itin) |-> AbsentItem]
    /\ tabs = <<>>
    /\ tabPanels = EmptyMap
    /\ focus = 0
    /\ diaryList = <<>>
    /\ diaryHidden = TRUE
    /\ buildCount = EmptyMap
    /\ setupCalls = 0
    /\ lastDayView = None
    /\ lastOpened = [id |-> "", hit |-> FALSE]
    /\ lastOp = NoOp
    /\ cards = <<>>

\* The DOMContentLoaded handler: parseItinerary, updateDiary (the diary
\* section was just removed from the document, so it returns at once),
\* buildTabs, restoreLastDay.
Startup ==
    /\ ~loaded
    /\ LET id == restoreLastDay(itineraryData, dia, lastDay)
           S0 == [Session EXCEPT
                    !.tabs = buildTabs(itineraryData, diaryMarkup # "none", store),
                    !.tabPanels = EmptyMap]
       IN  /\ Activated(id, openTab(id, S0, Env))
           /\ lastOp' = [NoOp EXCEPT !.op = IF lastOp.op = "reload"
                                            THEN "restart" ELSE "startup",
                                     !.prev = lastOp.prev,
                                     !.param = dia,
                                     !.stored = lastDay]
    /\ loaded' = TRUE
    /\ UNCHANGED <<itineraryData, diaryMarkup, store, focus, diaryList, diaryHidden>>

\* The page is loaded again with the `dia` parameter p: the document is
\* rebuilt from the markup, the durable storage is kept.
LoadPage(p) ==
    /\ loaded' = FALSE
    /\ dia' = p
    /\ tabs' = <<>>
    /\ tabPanels' = EmptyMap
    /\ focus' = 0
    /\ diaryList' = <<>>
    /\ diaryHidden' = TRUE
    /\ buildCount' = EmptyMap
    /\ setupCalls' = 0
    /\ lastOpened' = [id |-> "", hit |-> FALSE]
    /\ UNCHANGED <<itineraryData, diaryMarkup, lastDay, store, lastDayView>>

\* The view whose tab is selected, "" when no tab is.
ActiveView ==
    IF SelectedIndex(tabs) = 0 THEN ""
    ELSE getIdFromTab(tabs[SelectedIndex(tabs)])

Reload ==
    /\ loaded
    /\ LoadPage(dia)
    /\ lastOp' = [NoOp EXCEPT !.op = "reload", !.prev = ActiveView]

Navigate(p) ==
    /\ loaded
    /\ LoadPage(p)
    /\ lastOp' = [NoOp EXCEPT !.op = "navigate"]

\* The view id the click listener of the i-th button passes to openTab.
TabView(i) ==
    IF i <= Len(itineraryData) THEN toString(itineraryData[i].id)
    ELSE IF diaryMarkup # "none" /\ i = Len(itineraryData) + 1 THEN "diary"
    ELSE "memories"

\* Pointer click on the i-th tab.
ClickTab(i) ==
    /\ loaded
    /\ i \in DOMAIN tabs
    /\ Activated(TabView(i), openTab(TabView(i), Session, Env))
    /\ focus' = i
    /\ lastOp' = [NoOp EXCEPT !.op = "click"]
    /\ UNCHANGED <<itineraryData, diaryMarkup, loaded, store, diaryList, diaryHidden>>

\* The Tab key moves the focus into the strip, onto the tab with tabindex 0.
FocusTab(i) ==
    /\ loaded
    /\ i \in DOMAIN tabs
    /\ tabs[i].tabindex = 0
    /\ focus # i
    /\ focus' = i
    /\ UNCHANGED <<itineraryData, diaryMarkup, loaded, dia, lastDay, store, tabs,
                   tabPanels, diaryList, diaryHidden, buildCount, setupCalls,
                   lastDayView, lastOpened, lastOp>>

\* handleTabKeyNav for ArrowRight, ArrowLeft, Home and End.
KeyNav(key) ==
    /\ loaded
    /\ focus # 0
    /\ Len(tabs) > 0
    /\ LET currentIndex == SelectedIndex(tabs) - 1
           newIndex == NewIndex(key, currentIndex, Len(tabs))
           id == getIdFromTab(tabs[newIndex + 1])
       IN  /\ focus' = newIndex + 1
           /\ Activated(id, openTab(id, Session, Env))
           /\ lastOp' = [NoOp EXCEPT
                            !.op = key,
                            !.from = IF key \in {"ArrowRight", "ArrowLeft"}
                                     THEN currentIndex + 1 ELSE 0]
    /\ UNCHANGED <<itineraryData, diaryMarkup, loaded, store, diaryList, diaryHidden>>

\* handleTabKeyNav for Enter and Space: activates the focused tab.
KeyActivate ==
    /\ loaded
    /\ focus # 0
    /\ LET id == getIdFromTab(tabs[focus])
       IN  /\ Activated(id, openTab(id, Session, Env))
           /\ lastOp' = [NoOp EXCEPT !.op = "Enter"]
    /\ UNCHANGED <<itineraryData, diaryMarkup, loaded, store, focus, diaryList,
                   diaryHidden>>

\* Click on the previous-day (delta = -1) or next-day (delta = 1) button of
\* the day panel that is shown.
DayNav(view, delta) ==
    /\ loaded
    /\ view \in DOMAIN tabPanels
    /\ ~tabPanels[view].hidden
    /\ IF delta = 1 THEN tabPanels[view].nextBtn ELSE tabPanels[view].prevBtn
    /\ LET id == toString(tabPanels[view].day + delta)
       IN  /\ Activated(id, openTab(id, Session, Env))
           /\ lastOp' = [NoOp EXCEPT !.op = IF delta = 1 THEN "next" ELSE "prev"]
    /\ focus' = 0
    /\ UNCHANGED <<itineraryData, diaryMarkup, loaded, store, diaryList, diaryHidden>>

\* Click on the done button of row n of the day panel that is shown.
ToggleDone(view, n) ==
    /\ loaded
    /\ view \in DOMAIN tabPanels
    /\ ~tabPanels[view].hidden
    /\ n \in DOMAIN tabPanels[view].items
    /\ LET d == tabPanels[view].day
           item == tabPanels[view].items[n]
           completed == ~item.completed
           saved == IF item.saved.prim THEN item.saved
                    ELSE [item.saved EXCEPT
                            !.completed = IF completed THEN "true" ELSE "false"]
           st == [store EXCEPT ![ItemKey(d, n - 1)] = Stringify(saved)]
       IN  /\ tabPanels' = [tabPanels EXCEPT ![view].items[n] =
                                [item EXCEPT !.completed = completed,
                                             !.saved = saved]]
           /\ store' = st
           /\ tabs' = updateDayProgress(tabs, itineraryData, st, d)
           /\ lastOp' = [NoOp EXCEPT !.op = "toggle"]
    /\ focus' = 0
    /\ UNCHANGED <<itineraryData, diaryMarkup, loaded, dia, lastDay, diaryList,
                   diaryHidden, buildCount, setupCalls, lastDayView, lastOpened>>

\* The text `${saved.note}` of the note display after saved.note was
\* assigned; a primitive value keeps no property and reads undefined.
NoteShown(saved) == IF saved.prim THEN <<"undefined">> ELSE saved.note

\* Click on the note button of row n of the day panel that is shown; the
\* prompt is answered with text.
EditNote(view, n, text) ==
    /\ loaded
    /\ view \in DOMAIN tabPanels
    /\ ~tabPanels[view].hidden
    /\ n \in DOMAIN tabPanels[view].items
    /\ LET d == tabPanels[view].day
           item == tabPanels[view].items[n]
           trimmed == Trim(text)
           saved == IF item.saved.prim THEN item.saved
                    ELSE [item.saved EXCEPT !.note = trimmed]
           st == [store EXCEPT ![ItemKey(d, n - 1)] = Stringify(saved)]
           D == updateDiary(
                    [tabPanels |-> [tabPanels EXCEPT ![view].items[n] =
                                        [item EXCEPT
                                            !.saved = saved,
                                            !.noteDisplay =
                                                IF trimmed = <<>> THEN <<>>
                                                ELSE NoteShown(saved)]],
                     diaryList |-> diaryList,
                     diaryHidden |-> diaryHidden],
                    itineraryData, st, diaryMarkup # "none")
       IN  /\ store' = st
           /\ tabPanels' = D.tabPanels
           /\ diaryList' = D.diaryList
           /\ diaryHidden' = D.diaryHidden
           /\ lastOp' = [NoOp EXCEPT !.op = "note", !.prev = view, !.from = n,
                                     !.param = Some(text)]
    /\ focus' = 0
    /\ UNCHANGED <<itineraryData, diaryMarkup, loaded, dia, lastDay, tabs,
                   buildCount, setupCalls, lastDayView, lastOpened>>

\* Click on the note button, the prompt is cancelled (it returns null).
CancelNote(view, n) ==
    /\ loaded
    /\ view \in DOMAIN tabPanels
    /\ ~tabPanels[view].hidden
    /\ n \in DOMAIN tabPanels[view].items
    /\ focus' = 0
    /\ lastOp' = [NoOp EXCEPT !.op = "cancel"]
    /\ UNCHANGED <<itineraryData, diaryMarkup, loaded, dia, lastDay, store, tabs,
                   tabPanels, diaryList, diaryHidden, buildCount, setupCalls,
                   lastDayView, lastOpened>>

NavKeys == {"ArrowRight", "ArrowLeft", "Home", "End"}

\* The handlers of the tab/panel controller leave the memories and the
\* backend alone; the day blocks have left the document when they run.
Apart == UNCHANGED <<memVars, srvVars, cards>>

Next ==
    \/ Startup /\ Apart
    \/ Reload /\ Apart
    \/ \E p \in UrlInputs : Navigate(p) /\ Apart
    \/ \E i \in DOMAIN tabs : ClickTab(i) /\ Apart
    \/ \E i \in DOMAIN tabs : FocusTab(i) /\ Apart
    \/ \E key \in NavKeys : KeyNav(key) /\ Apart
    \/ KeyActivate /\ Apart
    \/ \E view \in DOMAIN tabPanels :
            \E delta \in {-1, 1} : DayNav(view, delta) /\ Apart
    \/ \E view \in DOMAIN tabPanels :
            \E n \in DOMAIN tabPanels[view].items : ToggleDone(view, n) /\ Apart
    \/ \E view \in DOMAIN tabPanels :
            \E n \in DOMAIN tabPanels[view].items :
                \E text \in NoteTexts : EditNote(view, n, text) /\ Apart
    \/ \E view \in DOMAIN tabPanels :
            \E n \in DOMAIN tabPanels[view].items : CancelNote(view, n) /\ Apart

Spec == Init /\ [][Next]_vars

---------------------------------------------------------------------------
(* The page session on a storage that holds item values of any kind *)

\* The values localStorage holds under an item key when the page is
\* opened: none, a text that is no JSON, null, a primitive value, a
\* completed item with a note.
StoredValues ==
    { AbsentItem, CorruptItem, NullItem, PrimItem,
      [kind |-> "obj", completed |-> "true", note |-> <<"n">>] }

\* The itinerary of the page: two days with one row each.
StoreItinerary == <<Day(1, 1), Day(2, 1)>>

\* The storages of the page: any value for the row of day 1, a text that
\* is no JSON or a completed item with a note for the row of day 2.
StoredPages ==
    { st \in [KeysOf(StoreItinerary) -> StoredValues] :
        st[ItemKey(2, 0)] \notin {AbsentItem, NullItem, PrimItem} }

StoreInit ==
    /\ itineraryData = StoreItinerary
    /\ diaryMarkup = "hidden"
    /\ loaded = FALSE
    /\ dia = None
    /\ lastDay = None
    /\ store \in StoredPages
    /\ tabs = <<>>
    /\ tabPanels = EmptyMap
    /\ focus = 0
    /\ diaryList = <<>>
    /\ diaryHidden = TRUE
    /\ buildCount = EmptyMap
    /\ setupCalls = 0
    /\ lastDayView = None
    /\ lastOpened = [id |-> "", hit |-> FALSE]
    /\ lastOp = NoOp
    /\ cards = <<>>
    /\ MemIdle
    /\ SrvIdle

StoreSpec == StoreInit /\ [][Next]_vars

---------------------------------------------------------------------------
(* The memories widget in a page session, with its backend *)

\* Most responses the page is waiting for at a time: a handler that would
\* send more requests runs once earlier ones are answered.
MaxPending == 3

\* Most responses that are awaited when the user starts another request.
MaxOverlap == 1

\* Most identifiers uuidv4 produces.
MaxUuids == 1

\* The itinerary of the page the widget is explored on.
MemItinerary == <<Day(2, 0)>>

\* The login forms that are submitted.
Credentials == {<<"gui", "amoreGui">>, <<"gui", "amore">>}

\* The publish forms that are filled in: for day 2, and for no day with a
\* file fileFilter rejects.
FormInputs ==
    { [title |-> "t", day |-> "2", media |-> <<>>],
      [title |-> "t", day |-> "", media |-> <<".exe">>] }

\* The options of the status filter that are selected.
StatusFilters == {"", "public"}

\* The server state a request of the browser meets.
Server == [db |-> db, sess |-> sessions[Browser], uuids |-> uuids]

ClientNow == Client(widget, dayMemories, cover)

\* The answers to the GET requests reqs a handler sends. A request is
\* answered from the state the server has when it is sent; the answers
\* arrive in any order, and an answer can be lost on its way.
Answers(reqs) ==
    { [req |-> reqs[i],
       res |-> IF reqs[i].kind = "me" THEN authMe(Server).res
               ELSE getMemories(Server, QueryOf(reqs[i])).res] :
      i \in DOMAIN reqs }

\* The page received res for the awaited response m.
Received(m, res) ==
    [client |-> Browser, op |-> m.req.kind, id |-> m.req.day, res |-> res]

\* A handler that sent only GET requests ends in C; rest are the responses
\* that are still awaited, ev (history) is the response the handler was
\* called with, NoRequest for a handler of a user event.
Handled(C, rest, ev) ==
    /\ widget' = C.widget
    /\ dayMemories' = C.dayMemories
    /\ cover' = C.cover
    /\ net' = rest \cup Answers(C.sent)
    /\ Cardinality(net') <= MaxPending
    /\ lastReq' = ev
    /\ UNCHANGED <<ctlVars, db, sessions, uuids>>

\* A handler that sent the request req, which changes the server to R.
Posted(W, req, R) ==
    /\ widget' = W
    /\ net' = net \cup {[req |-> req, res |-> R.res]}
    /\ db' = R.db
    /\ sessions' = [sessions EXCEPT ![Browser] = R.sess]
    /\ uuids' = R.uuids
    /\ Cardinality(net') <= MaxPending
    /\ lastReq' = NoRequest
    /\ UNCHANGED <<ctlVars, dayMemories, cover>>

MemInit ==
    /\ CtlIdle(MemItinerary)
    /\ MemIdle
    /\ db = EmptyDB
    /\ uuids = 0
    /\ lastReq = NoRequest
    /\ \E s \in {None, Some("gui")} :
            sessions = [c \in Clients |-> IF c = Browser THEN s ELSE None]

\* The memories tab is opened for the first time: createPanel calls
\* setupMemoriesPanel, which ends with checkAuth().
MountWidget ==
    /\ ~widget.mounted
    /\ Cardinality(net) <= MaxOverlap
    /\ Handled([ClientNow EXCEPT !.widget = Mounted,
                                 !.sent = <<Request("me", 0, "")>>],
               net, NoRequest)

\* The tab of day d is opened for the first time: createPanel registers the
\* panel and calls loadMemoriesForDay.
OpenDay(d) ==
    /\ d \notin DOMAIN dayMemories
    /\ Cardinality(net) <= MaxOverlap
    /\ Handled([ClientNow EXCEPT
                    !.dayMemories = Put(dayMemories, d, FreshDayPanel),
                    !.sent = <<Request("day", d, "")>>],
               net, NoRequest)

\* The login form is submitted with a user name and a password.
SubmitLogin(username, password) ==
    /\ widget.login
    /\ StrTrim(username) # "" /\ StrTrim(password) # ""
    /\ Cardinality(net) <= MaxOverlap
    /\ Posted([widget EXCEPT !.loginError = ""],
              Request("login", 0, ""),
              authLogin(Server, StrTrim(username), StrTrim(password)))

\* Click on the logout button.
ClickLogout ==
    /\ widget.logout
    /\ Cardinality(net) <= MaxOverlap
    /\ Posted(widget, Request("logout", 0, ""), authLogout(Server))

\* The user fills in the publish form and submits it; the browser refuses
\* an empty title.
SubmitPublish(form) ==
    /\ widget.publish
    /\ form.title # ""
    /\ Cardinality(net) <= MaxOverlap
    /\ postMemories(Server, FormBody(form)).uuids <= MaxUuids
    /\ Posted([widget EXCEPT !.form = form, !.publishError = "",
                             !.publishSuccess = "", !.progress = TRUE],
              Request("publish", 0, ""),
              postMemories(Server, FormBody(form)))

\* The user selects an option of the status filter and clicks on the
\* search button.
ClickSearch(status) ==
    /\ widget.filter
    /\ Cardinality(net) <= MaxOverlap
    /\ LET W == [widget EXCEPT !.statusFilter = status]
       IN  Handled([ClientNow EXCEPT !.widget = W, !.sent = <<loadMemories(W)>>],
                   net, NoRequest)

\* What the page receives for the awaited response m: the answer of the
\* server, or a network error when the answer is lost.
Outcomes(m) == {m.res, NetworkError}

\* The answer to GET /auth/me arrives.
MeAnswered(m) ==
    /\ m.req.kind = "me"
    /\ \E res \in Outcomes(m) :
            Handled(checkAuth(ClientNow, itineraryData, res),
                    net \ {m}, Received(m, res))

\* The answer to POST /auth/login arrives.
LoginAnswered(m) ==
    /\ m.req.kind = "login"
    /\ \E res \in Outcomes(m) :
            Handled(loginAnswered(ClientNow, itineraryData, res),
                    net \ {m}, Received(m, res))

\* The logout request is settled, by the answer of the server, by an
\* answer with an error status or by a network error: showLogin, whatever
\* the outcome.
LogoutAnswered(m) ==
    /\ m.req.kind = "logout"
    /\ \E res \in Outcomes(m) \cup {ServerError} :
            Handled(showLogin(ClientNow, itineraryData, "exit"), net \ {m},
                    Received(m, res))

\* The answer to the list fetch arrives.
ListAnswered(m) ==
    /\ m.req.kind = "list"
    /\ \E res \in Outcomes(m) :
            Handled(loadMemoriesAnswered(ClientNow, itineraryData, res),
                    net \ {m}, Received(m, res))

\* The answer to a day-scoped fetch arrives.
DayAnswered(m) ==
    /\ m.req.kind = "day"
    /\ \E res \in Outcomes(m) :
            Handled(loadMemoriesForDayAnswered(ClientNow, m.req.day, res),
                    net \ {m}, Received(m, res))

\* The answer to the cover fetch arrives.
CoverAnswered(m) ==
    /\ m.req.kind = "cover"
    /\ \E res \in Outcomes(m) :
            Handled(loadCoverMemoriesAnswered(ClientNow, res),
                    net \ {m}, Received(m, res))

\* The upload is settled.
PublishAnswered(m) ==
    /\ m.req.kind = "publish"
    /\ \E res \in Outcomes(m) :
            Handled(uploadAnswered(ClientNow, itineraryData, res),
                    net \ {m}, Received(m, res))

\* The server loses the session of the browser: sessions are kept in the
\* memory of the server process.
SessionLost ==
    /\ sessions[Browser].present
    /\ sessions' = [sessions EXCEPT ![Browser] = None]
    /\ lastReq' = NoRequest
    /\ UNCHANGED <<ctlVars, widget, dayMemories, cover, net, db, uuids>>

\* The page is loaded again: the document is rebuilt, the answers to the
\* requests of the old document are dropped.
ReloadPage ==
    /\ widget.mounted \/ DOMAIN dayMemories # {}
    /\ widget' = Unmounted
    /\ dayMemories' = EmptyMap
    /\ cover' = ClearedCover
    /\ net' = {}
    /\ lastReq' = NoRequest
    /\ UNCHANGED <<ctlVars, db, sessions, uuids>>

MemNext ==
    \/ MountWidget
    \/ \E n \in DOMAIN itineraryData : OpenDay(itineraryData[n].id)
    \/ \E c \in Credentials : SubmitLogin(c[1], c[2])
    \/ ClickLogout
    \/ \E form \in FormInputs : SubmitPublish(form)
    \/ \E status \in StatusFilters : ClickSearch(status)
    \/ \E m \in net : MeAnswered(m)
    \/ \E m \in net : LoginAnswered(m)
    \/ \E m \in net : LogoutAnswered(m)
    \/ \E m \in net : ListAnswered(m)
    \/ \E m \in net : DayAnswered(m)
    \/ \E m \in net : CoverAnswered(m)
    \/ \E m \in net : PublishAnswered(m)
    \/ SessionLost
    \/ ReloadPage

MemSpec == MemInit /\ [][MemNext]_vars

---------------------------------------------------------------------------
(* The backend serving the requests of two clients *)

\* Most identifiers uuidv4 produces for the two clients.
MaxIds == 2

\* The bodies of POST /memories.
PostBodies ==
    { [title |-> "t", status |-> "", day |-> None, media |-> <<>>],
      [title |-> "", status |-> "", day |-> None, media |-> <<>>],
      [title |-> "t", status |-> "public", day |-> Some("2"), media |-> <<".jpg">>],
      [title |-> "t", status |-> "", day |-> Some(" "), media |-> <<".exe">>] }

\* The bodies of PUT /memories/:id.
PutBodies ==
    { [title |-> Some(""), status |-> None, day |-> None, media |-> <<>>],
      [title |-> None, status |-> Some("public"), day |-> Some(""),
       media |-> <<".png">>],
      [title |-> None, status |-> None, day |-> Some("x"), media |-> <<".exe">>] }

\* The query strings of GET /memories.
Queries ==
    { NoFilter, [NoFilter EXCEPT !.status = "public", !.day = Some("2")] }

\* The route handler R answered the request op of client c on memory id.
Served(c, op, id, R) ==
    /\ R.uuids <= MaxIds
    /\ db' = R.db
    /\ sessions' = [sessions EXCEPT ![c] = R.sess]
    /\ uuids' = R.uuids
    /\ lastReq' = [client |-> c, op |-> op, id |-> id, res |-> R.res]
    /\ UNCHANGED <<ctlVars, memVars>>

ServerFor(c) == [db |-> db, sess |-> sessions[c], uuids |-> uuids]

SrvInit ==
    /\ CtlIdle(<<>>)
    /\ MemIdle
    /\ SrvIdle

Login(c, username, password) ==
    Served(c, "login", 0, authLogin(ServerFor(c), username, password))

Logout(c) == Served(c, "logout", 0, authLogout(ServerFor(c)))

Me(c) == Served(c, "me", 0, authMe(ServerFor(c)))

\* GET /memories; the query string is kept in the place of the memory id.
ListMemories(c, query) ==
    Served(c, "GET", query, getMemories(ServerFor(c), query))

CreateMemory(c, body) == Served(c, "POST", 0, postMemories(ServerFor(c), body))

UpdateMemory(c, id, body) ==
    Served(c, "PUT", id, putMemories(ServerFor(c), id, body))

RemoveMemory(c, id) == Served(c, "DELETE", id, deleteMemories(ServerFor(c), id))

Comment(c, id, text) ==
    Served(c, "comment", id, postComments(ServerFor(c), id, text))

SrvNext ==
    \/ \E c \in Clients : \E cr \in Credentials \cup {<<"carina", "amore">>} :
            Login(c, cr[1], cr[2])
    \/ \E c \in Clients : Logout(c)
    \/ \E c \in Clients : Me(c)
    \/ \E c \in Clients : \E query \in Queries : ListMemories(c, query)
    \/ \E c \in Clients : \E body \in PostBodies : CreateMemory(c, body)
    \/ \E c \in Clients : \E id \in 1..MaxIds : \E body \in PutBodies :
            UpdateMemory(c, id, body)
    \/ \E c \in Clients : \E id \in 1..MaxIds : RemoveMemory(c, id)
    \/ \E c \in Clients : \E id \in 1..MaxIds : \E text \in {" ", "c"} :
            Comment(c, id, text)

SrvSpec == SrvInit /\ [][SrvNext]_vars

---------------------------------------------------------------------------
(* The backend started on a database file that holds a memory and a comment *)

\* Most reactions counted under one emoji.
MaxCount == 2

\* The `emoji` fields of the reaction requests.
Emojis == {"", "a", "constructor"}

\* data/db.json as an earlier run of the server left it: a memory of gui
\* and a comment of carina on it, with the two identifiers issued so far.
StoredFile ==
    [memories |->
        <<[id |-> 1, user |-> "gui", title |-> "t", text |-> "",
           date |-> Clock, tags |-> <<>>, status |-> "draft", media |-> <<>>,
           day |-> UndefinedDay, createdAt |-> Clock,
           reactions |-> EmptyMap]>>,
     comments |->
        <<[id |-> 2, memoryId |-> 1, user |-> "carina", text |-> "c",
           reactions |-> EmptyMap]>>]

RECURSIVE TrailingOnes(_)
\* The number of characters 1 the string s ends with.
TrailingOnes(s) ==
    IF Len(s) > 0 /\ SubSeq(s, Len(s), Len(s)) = "1"
    THEN 1 + TrailingOnes(SubSeq(s, 1, Len(s) - 1)) ELSE 0

\* The reactions one value of a reactions object stands for.
Reacted(v) == IF v.kind = "number" THEN v.n ELSE TrailingOnes(v.s)

RECURSIVE ReactionsOf(_, _)
\* The reactions a reactions object holds under the keys of the set keys.
ReactionsOf(reactions, keys) ==
    IF keys = {} THEN 0
    ELSE LET k == CHOOSE x \in keys : TRUE
         IN  Reacted(reactions[k]) + ReactionsOf(reactions, keys \ {k})

RECURSIVE ReactionsIn(_)
\* The reactions the records of a sequence hold.
ReactionsIn(records) ==
    IF records = <<>> THEN 0
    ELSE ReactionsOf(Head(records).reactions, DOMAIN Head(records).reactions)
             + ReactionsIn(Tail(records))

\* The file holds no more than MaxCount reactions.
WithinCount(file) ==
    ReactionsIn(file.memories) + ReactionsIn(file.comments) <= MaxCount

ApiInit ==
    /\ CtlIdle(<<>>)
    /\ MemIdle
    /\ db = StoredFile
    /\ sessions = [c \in Clients |-> None]
    /\ uuids = 2
    /\ lastReq = NoRequest

ReadMemory(c, id) == Served(c, "read", id, getMemory(ServerFor(c), id))

ListComments(c, id) == Served(c, "comments", id, getComments(ServerFor(c), id))

ReactMemory(c, id, emoji) ==
    /\ WithinCount(postMemoryReactions(ServerFor(c), id, emoji).db)
    /\ Served(c, "react", id, postMemoryReactions(ServerFor(c), id, emoji))

ReactComment(c, id, emoji) ==
    /\ WithinCount(postCommentReactions(ServerFor(c), id, emoji).db)
    /\ Served(c, "reactComment", id,
              postCommentReactions(ServerFor(c), id, emoji))

Export(c) == Served(c, "export", 0, exportData(ServerFor(c)))

ApiNext ==
    \/ \E c \in Clients : \E cr \in Credentials : Login(c, cr[1], cr[2])
    \/ \E c \in Clients : Logout(c)
    \/ \E c \in Clients : \E query \in Queries : ListMemories(c, query)
    \/ \E c \in Clients : \E body \in PostBodies : CreateMemory(c, body)
    \/ \E c \in Clients : \E id \in 1..MaxIds : \E body \in PutBodies :
            UpdateMemory(c, id, body)
    \/ \E c \in Clients : \E id \in 1..MaxIds : RemoveMemory(c, id)
    \/ \E c \in Clients : \E id \in 1..MaxIds : \E text \in {" ", "c"} :
            Comment(c, id, text)
    \/ \E c \in Clients : \E id \in 1..MaxIds : ReadMemory(c, id)
    \/ \E c \in Clients : \E id \in 1..MaxIds : ListComments(c, id)
    \/ \E c \in Clients : \E id \in 1..MaxIds : \E emoji \in Emojis :
            ReactMemory(c, id, emoji)
    \/ \E c \in Clients : \E id \in 1..MaxIds : \E emoji \in Emojis :
            ReactComment(c, id, emoji)
    \/ \E c \in Clients : Export(c)

ApiSpec == ApiInit /\ [][ApiNext]_vars

---------------------------------------------------------------------------
(* GET /memories on the database files of a pool of memories *)

\* Most memories in the database file.
MaxStored == 2

\* A stored memory of gui without media and reactions.
Stored(id, title, text, date, tags, status, day) ==
    [id |-> id, user |-> "gui", title |-> title, text |-> text,
     date |-> date, tags |-> tags, status |-> status, media |-> <<>>,
     day |-> DayOfField(day), createdAt |-> Clock, reactions |-> EmptyMap]

MemoryPool ==
    { Stored(1, "Praia", "", "2025-01-10", <<"Sol">>, "public", Some("2")),
      Stored(2, "", "na PRAIA", "2025-01-10T12:00:00.000Z", <<>>, "draft",
             Some("x")),
      Stored(3, "Serra", "frio", "ontem", <<"mar", "sol">>, "public", None),
      Stored(4, "praia", "sol", "2025-01-12", <<>>, "draft", Some("2")) }

\* The database files with at most MaxStored memories of the pool, in any
\* order.
DatabaseFiles(n) ==
    UNION { {f \in [1..k -> MemoryPool] :
                \A i, j \in 1..k : i # j => f[i].id # f[j].id} : k \in 0..n }

\* The query strings of the searches.
Searches ==
    { NoFilter,
      [NoFilter EXCEPT !.status = "public"],
      [NoFilter EXCEPT !.q = "praia"],
      [NoFilter EXCEPT !.q = "PRAIA", !.status = "public"],
      [NoFilter EXCEPT !.q = "frio"],
      [NoFilter EXCEPT !.from = "2025-01-10"],
      [NoFilter EXCEPT !.to = "2025-01-10"],
      [NoFilter EXCEPT !.from = "2025-01-10", !.to = "2025-01-12"],
      [NoFilter EXCEPT !.from = "2025-01-11", !.q = "sol"],
      [NoFilter EXCEPT !.to = "amanha"],
      [NoFilter EXCEPT !.day = Some("2")],
      [NoFilter EXCEPT !.day = Some(" ")],
      [NoFilter EXCEPT !.day = Some(" 2")],
      [NoFilter EXCEPT !.day = Some("x"), !.status = "draft"],
      [NoFilter EXCEPT !.tag = "SOL"],
      [NoFilter EXCEPT !.tag = "sol", !.status = "public", !.q = "a"] }

QueryInit ==
    /\ CtlIdle(<<>>)
    /\ MemIdle
    /\ \E f \in DatabaseFiles(MaxStored) :
            db = [memories |-> f, comments |-> <<>>]
    /\ sessions = [c \in Clients |-> IF c = Browser THEN Some("gui") ELSE None]
    /\ uuids = 0
    /\ lastReq = NoRequest

QueryNext == \E c \in Clients : \E query \in Searches : ListMemories(c, query)

QuerySpec == QueryInit /\ [][QueryNext]_vars

---------------------------------------------------------------------------
(* The day blocks and the cover of a logged-in browser over the backend *)

\* The itinerary of the page: days 1 and 2, whose panels are built.
BlockItinerary == <<Day(1, 0), Day(2, 0)>>

\* The `day` fields of the requests that create or update a memory: none,
\* a day of the itinerary, a day written with a leading zero, blank, and
\* a text that is no number.
DayFields == {None, Some("1"), Some("2"), Some("02"), Some(" "), Some("x")}

BlockInit ==
    /\ CtlIdle(BlockItinerary)
    /\ widget = Unmounted
    /\ dayMemories = Put(Put(EmptyMap, 1, FreshDayPanel), 2, FreshDayPanel)
    /\ cover = ClearedCover
    /\ net = {}
    /\ db = EmptyDB
    /\ sessions = [c \in Clients |-> IF c = Browser THEN Some("gui") ELSE None]
    /\ uuids = 0
    /\ lastReq = NoRequest

\* loadCoverMemories(): the fetch and the render of its answer.
FetchCover ==
    LET R == getMemories(ServerFor(Browser), NoFilter)
    IN  /\ cover' = loadCoverMemoriesAnswered(ClientNow, R.res).cover
        /\ lastReq' = [client |-> Browser, op |-> "cover", id |-> 0,
                       res |-> R.res]
        /\ UNCHANGED <<ctlVars, widget, dayMemories, net, db, sessions, uuids>>

\* loadMemoriesForDay(dayId): the fetch and the render of its answer.
FetchDay(dayId) ==
    LET R == getMemories(ServerFor(Browser),
                         QueryOf(Request("day", dayId, "")))
    IN  /\ dayMemories'
               = loadMemoriesForDayAnswered(ClientNow, dayId, R.res).dayMemories
        /\ lastReq' = [client |-> Browser, op |-> "day", id |-> dayId,
                       res |-> R.res]
        /\ UNCHANGED <<ctlVars, widget, cover, net, db, sessions, uuids>>

BlockNext ==
    \/ \E day \in DayFields :
            CreateMemory(Browser, [title |-> "t", status |-> "", day |-> day,
                                   media |-> <<>>])
    \/ \E id \in 1..MaxIds : \E day \in DayFields :
            UpdateMemory(Browser, id, [title |-> None, status |-> None,
                                       day |-> day, media |-> <<>>])
    \/ FetchCover
    \/ \E n \in DOMAIN itineraryData : FetchDay(itineraryData[n].id)

BlockSpec == BlockInit /\ [][BlockNext]_vars

---------------------------------------------------------------------------
(* The writing endpoints on a stored memory that has a media file *)

\* A reading of the clock before the server was started.
Earlier == "2025-05-01T12:00:00.000Z"

\* The database file the server starts on: one memory of gui, created
\* earlier with one media file.
KeptFile ==
    [memories |->
        <<[id |-> 1, user |-> "gui", title |-> "t", text |-> "",
           date |-> Earlier, tags |-> <<>>, status |-> "draft",
           media |-> <<[uuid |-> 0, ext |-> ".jpg"]>>,
           day |-> UndefinedDay, createdAt |-> Earlier,
           reactions |-> EmptyMap]>>,
     comments |-> <<>>]

\* The owner of the memory and another user are logged in.
KeepInit ==
    /\ CtlIdle(<<>>)
    /\ MemIdle
    /\ db = KeptFile
    /\ sessions = [c \in Clients |-> IF c = Browser THEN Some("gui")
                                      ELSE Some("carina")]
    /\ uuids = 1
    /\ lastReq = NoRequest

\* The requests that write a memory: create (by the other user), update,
\* delete, react.
KeepNext ==
    \/ \E c \in Clients \ {Browser} :
            CreateMemory(c, [title |-> "t", status |-> "", day |-> None,
                             media |-> <<>>])
    \/ \E c \in Clients : \E id \in 1..MaxIds : \E body \in PutBodies :
            UpdateMemory(c, id, body)
    \/ \E c \in Clients : \E id \in 1..MaxIds : RemoveMemory(c, id)
    \/ \E c \in Clients : \E id \in 1..MaxIds : \E emoji \in Emojis :
            ReactMemory(c, id, emoji)

KeepSpec == KeepInit /\ [][KeepNext]_vars


---------------------------------------------------------------------------
(* parseItinerary on the day blocks of a document *)

\* Most day blocks of a document.
MaxCards == 2

RECURSIVE LeadingDigits(_)
LeadingDigits(s) ==
    IF Len(s) > 0 /\ IsDigit(SubSeq(s, 1, 1))
    THEN SubSeq(s, 1, 1) \o LeadingDigits(SubSeq(s, 2, Len(s))) ELSE ""

\* parseInt(s, 10) of a string that starts, after its white space, with a
\* decimal digit.
parseInt(s) == DecimalValue(LeadingDigits(StrTrimLeft(s)))

\* The object parseItinerary makes of a row of .schedule: li.time and
\* li.transport are the elements .time and .transport of the row (None
\* when it has none), li.html is the markup of the row without them.
Row(li) ==
    [time |-> IF li.time.present THEN StrTrim(li.time.value) ELSE "",
     html |-> StrTrim(li.html),
     transport |-> IF li.transport.present
                   THEN Some(StrTrim(li.transport.value)) ELSE None]

\* The object parseItinerary pushes for a day block; null is None.
DayRecord(card) ==
    [id |-> parseInt(card.day),
     title |-> IF card.title.present THEN StrTrim(card.title.value) ELSE "",
     subtitle |-> IF card.sub.present THEN StrTrim(card.sub.value) ELSE "",
     highlight |-> IF card.highlight.present
                   THEN Some(StrTrim(card.highlight.value)) ELSE None,
     schedule |-> [i \in DOMAIN card.rows |-> Row(card.rows[i])]]

\* parseItinerary without card.remove().
parseItineraryKeepingCards(doc) ==
    [data |-> [i \in DOMAIN doc |-> DayRecord(doc[i])], cards |-> doc]

\* parseItinerary(): the array it returns and the day blocks it leaves in
\* the document.
parseItinerary(doc) ==
    [data |-> [i \in DOMAIN doc |-> DayRecord(doc[i])], cards |-> <<>>]

\* The rows of the day blocks that are explored: with and without time
\* label, with and without transport note.
SourceRows ==
    { [time |-> time, transport |-> transport, html |-> " <p>d</p> "] :
        time \in {None, Some(" 09:00 ")},
        transport \in {None, Some(" <em>bus</em>")} }

\* The day blocks with data-day = d: with and without subtitle and
\* highlight, with no row and with one row.
SourceCards(d) ==
    { [day |-> toString(d), title |-> Some(" Dia "), sub |-> sub,
       highlight |-> highlight, rows |-> rows] :
        sub \in {None, Some("s ")},
        highlight \in {None, Some(" <b>h</b>")},
        rows \in {<<>>} \cup {<<li>> : li \in SourceRows} }

\* The documents with at most n day blocks, their ids ascending from 1.
Sources(n) ==
    UNION { {doc \in [1..k -> UNION {SourceCards(d) : d \in 1..n}] :
                \A i \in 1..k : doc[i].day = toString(i)} : k \in 0..n }

\* A document with its day blocks, before the DOMContentLoaded handler
\* has run.
ParseInit ==
    /\ cards \in Sources(MaxCards)
    /\ itineraryData = <<>>
    /\ diaryMarkup = "none"
    /\ loaded = FALSE
    /\ dia = None
    /\ lastDay = None
    /\ store = EmptyMap
    /\ tabs = <<>>
    /\ tabPanels = EmptyMap
    /\ focus = 0
    /\ diaryList = <<>>
    /\ diaryHidden = TRUE
    /\ buildCount = EmptyMap
    /\ setupCalls = 0
    /\ lastDayView = None
    /\ lastOpened = [id |-> "", hit |-> FALSE]
    /\ lastOp = NoOp
    /\ MemIdle
    /\ SrvIdle

\* The call of parseItinerary in the DOMContentLoaded handler; the array
\* is kept where buildTabs will put it.
ParseItinerary ==
    /\ lastOp.op = "none"
    /\ itineraryData' = parseItinerary(cards).data
    /\ cards' = parseItinerary(cards).cards
    /\ lastOp' = [NoOp EXCEPT !.op = "parse"]
    /\ UNCHANGED <<diaryMarkup, loaded, dia, lastDay, store, tabs, tabPanels,
                   focus, diaryList, diaryHidden, buildCount, setupCalls,
                   lastDayView, lastOpened, memVars, srvVars>>

ParseNext == ParseItinerary

ParseSpec == ParseInit /\ [][ParseNext]_vars

---------------------------------------------------------------------------
(* Properties of the tab/panel controller *)

\* The first day of the itinerary, `diary` when it has no day.
FirstView(itin) == IF Len(itin) > 0 THEN toString(itin[1].id) ELSE "diary"

\* C1: after startup resolution and after every call of openTab(id), for
\* every id that can reach it (stale or unknown ones included), exactly one
\* tab has aria-selected=true and tabindex=0 and every other tab has
\* aria-selected=false and tabindex=-1.
C1_ExactlyOneTabSelected ==
    loaded =>
        \E i \in DOMAIN tabs :
            /\ tabs[i].selected /\ tabs[i].tabindex = 0
            /\ \A j \in DOMAIN tabs \ {i} :
                    ~tabs[j].selected /\ tabs[j].tabindex = -1

\* C2: after every openTab(viewId) the panel of viewId exists and is
\* visible, and every other materialized panel is hidden and lacks the
\* class `active`.
C2_OpenedPanelOnlyVisible ==
    loaded =>
        /\ lastOpened.id \in DOMAIN tabPanels
        /\ ~tabPanels[lastOpened.id].hidden
        /\ \A k \in DOMAIN tabPanels \ {lastOpened.id} :
                tabPanels[k].hidden /\ ~tabPanels[k].active

\* C3: within one page session the build logic of each view id runs at most
\* once, the panel registered under a view id is the one that was built
\* first (it is never replaced), and setupMemoriesPanel is called at most
\* once.
C3_PanelsMemoized ==
    /\ \A id \in DOMAIN buildCount : buildCount[id] <= 1
    /\ \A id \in DOMAIN tabPanels : tabPanels[id].gen = 1 /\ CountOf(buildCount, id) = 1
    /\ setupCalls <= 1
    /\ setupCalls = CountOf(buildCount, "memories")

\* C3 witness: the memories view was activated again while its panel was
\* registered, and another panel was built in between.
C3_Witness ==
    /\ loaded
    /\ lastOpened = [id |-> "memories", hit |-> TRUE]
    /\ setupCalls = 1
    /\ Cardinality(DOMAIN tabPanels) >= 2

\* The view the claimed precedence of C4 selects.
ClaimedPrecedence(param, stored, itin) ==
    IF param.present THEN param.value
    ELSE IF stored.present THEN stored.value
    ELSE FirstView(itin)

\* C4 as stated: startup selects the `dia` parameter if present, else the
\* stored lastDay, else the first day, else `diary`.
C4_StrictPrecedence ==
    lastOp.op \in {"startup", "restart"} =>
        lastOpened.id = ClaimedPrecedence(lastOp.param, lastOp.stored, itineraryData)

\* C4 amended: startup selects the `dia` parameter if it is present and not
\* empty; else, when the parameter is absent, the stored lastDay; else (the
\* parameter is present but empty, or nothing is stored) the first day,
\* else `diary` when there is no day.
C4_Precedence ==
    lastOp.op \in {"startup", "restart"} =>
        lastOpened.id =
            IF lastOp.param.present
            THEN IF lastOp.param.value # "" THEN lastOp.param.value
                 ELSE FirstView(itineraryData)
            ELSE IF lastOp.stored.present /\ lastOp.stored.value # ""
                 THEN lastOp.stored.value
                 ELSE FirstView(itineraryData)

\* C4 witness: startup found dia=2 and lastDay=3 and selected day 2.
C4_Witness ==
    /\ lastOp.op \in {"startup", "restart"}
    /\ lastOp.param = Some("2")
    /\ lastOp.stored = Some("3")
    /\ lastOpened.id = "2"
    /\ ActiveView = "2"

\* C5 as stated: after openTab(viewId) the `dia` parameter equals viewId
\* when it is a day id and is absent when viewId is `diary` or `memories`.
C5_AddressOmitsMemories ==
    loaded =>
        /\ FindDay(itineraryData, lastOpened.id) # 0 => dia = Some(lastOpened.id)
        /\ lastOpened.id \in {"diary", "memories"} => ~dia.present

\* C5 amended: after openTab(viewId) the `dia` parameter equals viewId for
\* every viewId other than `diary` (day ids and `memories` alike) and is
\* absent when viewId is `diary`.
C5_AddressReflectsView ==
    loaded =>
        IF lastOpened.id = "diary" THEN ~dia.present
        ELSE dia = Some(lastOpened.id)

\* C5 witness: the memories view was activated and the address carries
\* dia=memories.
C5_Witness ==
    /\ loaded
    /\ lastOpened.id = "memories"
    /\ dia = Some("memories")

\* C6 as stated: a reload while the memories tab is active does not restore
\* the memories view; startup selects the last-visited day, the first day or
\* the diary.
C6_ReloadLosesMemories ==
    (lastOp.op = "restart" /\ lastOp.prev = "memories") =>
        /\ lastOpened.id # "memories"
        /\ lastOpened.id \in {lastOp.stored.value, FirstView(itineraryData)}

\* C6 amended: a reload while the memories tab is active restores the
\* memories view; it is a reload while the diary tab is active that does
\* not restore the view the address stands for: startup then selects the
\* last-visited day, else the first day, else the diary.
C6_ReloadRestores ==
    /\ (lastOp.op = "restart" /\ lastOp.prev = "memories") =>
            /\ lastOpened.id = "memories"
            /\ ActiveView = "memories"
            /\ ~tabPanels["memories"].hidden
    /\ (lastOp.op = "restart" /\ lastOp.prev = "diary") =>
            lastOpened.id = IF lastOp.stored.present THEN lastOp.stored.value
                            ELSE FirstView(itineraryData)

\* C6 witness: the page was reloaded on the memories tab, a day having been
\* visited before, and the memories view is active again.
C6_Witness ==
    /\ lastOp.op = "restart"
    /\ lastOp.prev = "memories"
    /\ lastOp.stored.present
    /\ ActiveView = "memories"

\* C7: after any sequence of activations the stored lastDay equals the id
\* of the day view that was activated last (activating `diary` or
\* `memories` leaves it alone, activating a day view sets it).
C7_LastDayIsLastDayView ==
    (loaded /\ lastDayView.present) => lastDay = lastDayView

\* C8: with the tab at position i of n selected, ArrowRight selects and
\* activates the tab at position (i+1) mod n and ArrowLeft the one at
\* (i-1) mod n, and the tab selected this way has the focus.
C8_ArrowKeysCyclic ==
    (lastOp.op \in {"ArrowRight", "ArrowLeft"} /\ lastOp.from # 0) =>
        LET n == Len(tabs)
            i == lastOp.from - 1
            target == IF lastOp.op = "ArrowRight" THEN ((i + 1) % n) + 1
                      ELSE ((i + n - 1) % n) + 1
        IN  /\ {j \in DOMAIN tabs : tabs[j].selected} = {target}
            /\ tabs[target].tabindex = 0
            /\ focus = target
            /\ lastOpened.id = TabView(target)
            /\ lastOpened.id \in DOMAIN tabPanels
            /\ ~tabPanels[lastOpened.id].hidden

\* C8 witness: ArrowRight was pressed with the last of at least three tabs
\* selected and the first tab is selected and focused.
C8_Witness ==
    /\ lastOp.op = "ArrowRight"
    /\ Len(tabs) >= 3
    /\ lastOp.from = Len(tabs)
    /\ tabs[1].selected
    /\ focus = 1

---------------------------------------------------------------------------
(* Properties of the per-item state store *)

\* The number of rows of day d whose stored state has completed=true.
DoneOf(st, d, total) ==
    Cardinality({i \in 0..(total - 1) :
        st[ItemKey(d, i)].kind = "obj" /\ st[ItemKey(d, i)].completed = "true"})

\* The label C9 expects for day d.
ExpectedLabel(d, done, total) ==
    IF total = 0 THEN "Dia " \o toString(d)
    ELSE IF done = total THEN "Dia " \o toString(d) \o " " \o CheckMark
    ELSE "Dia " \o toString(d) \o " (" \o toString(done) \o "/"
             \o toString(total) \o ")"

\* C9: in every state each day tab's label matches the stored completion
\* flags of the day's rows: `Dia N` for a day without rows, `Dia N` with
\* the completion mark when done = total > 0, `Dia N (done/total)` otherwise.
C9_LabelsMatchStore ==
    loaded =>
        \A n \in DOMAIN itineraryData :
            LET day == itineraryData[n]
            IN  tabs[n].label =
                    ExpectedLabel(day.id, DoneOf(store, day.id, day.rows), day.rows)

\* C9 witness: a completion toggle left one of the two rows of day 1 done
\* and the tab of day 1 reads `Dia 1 (1/2)`.
C9_Witness ==
    /\ lastOp.op = "toggle"
    /\ Len(itineraryData) > 0
    /\ itineraryData[1].rows >= 2
    /\ DoneOf(store, 1, itineraryData[1].rows) = 1
    /\ tabs[1].label = "Dia 1 (1/" \o toString(itineraryData[1].rows) \o ")"

\* The stored value of an item that was completed and then uncompleted and
\* has no note.
FalseItem == [kind |-> "obj", completed |-> "false", note |-> <<>>]

\* C10: an item state stored with completed=false and no note reads back
\* like an absent key: the row is not counted as completed in the progress
\* label of its day, a panel built from it shows the row as not completed
\* and without note, and the diary aggregation has no entry for it.
C10_FalseStateIsAbsent ==
    loaded =>
        \A n \in DOMAIN itineraryData :
            \A i \in 0..(itineraryData[n].rows - 1) :
                LET day == itineraryData[n]
                    key == ItemKey(day.id, i)
                    without == [store EXCEPT ![key] = AbsentItem]
                IN  store[key] = FalseItem =>
                        /\ tabs[n].label =
                               ExpectedLabel(day.id,
                                             DoneOf(without, day.id, day.rows),
                                             day.rows)
                        /\ LET shown == PanelItems(store, day.id, day.rows)[i + 1]
                               fresh == PanelItems(without, day.id, day.rows)[i + 1]
                           IN  /\ shown.completed = fresh.completed
                               /\ shown.noteDisplay = fresh.noteDisplay
                        /\ DiaryEntries(itineraryData, store)
                               = DiaryEntries(itineraryData, without)
                        /\ toString(day.id) \in DOMAIN tabPanels =>
                               /\ ~tabPanels[toString(day.id)].items[i + 1].completed
                               /\ tabPanels[toString(day.id)].items[i + 1].noteDisplay = <<>>

\* C10 witness: a completion toggle stored completed=false for a row that
\* has no note.
C10_Witness ==
    /\ lastOp.op = "toggle"
    /\ \E key \in DOMAIN store : store[key] = FalseItem

\* C11: whenever the diary panel of a page with a diary section is
\* displayed, its list holds exactly one entry per stored item value with a
\* non-empty note, notes of an earlier session and notes saved before the
\* panel was materialized included.
C11_DiaryListsAllNotes ==
    (/\ loaded
     /\ diaryMarkup # "none"
     /\ "diary" \in DOMAIN tabPanels
     /\ ~tabPanels["diary"].hidden) =>
        diaryList = DiaryEntries(itineraryData, store)

\* C12: a day panel has the previous-day button iff a day with id - 1
\* exists and the next-day button iff a day with id + 1 exists.
C12_NavButtonsMatchDays ==
    \A k \in DOMAIN tabPanels :
        tabPanels[k].day # 0 =>
            /\ tabPanels[k].prevBtn <=>
                   FindDay(itineraryData, toString(tabPanels[k].day - 1)) # 0
            /\ tabPanels[k].nextBtn <=>
                   FindDay(itineraryData, toString(tabPanels[k].day + 1)) # 0

\* The loggedOut layout: only the login form is displayed.
LoggedOut(W) ==
    W.login /\ ~W.logout /\ ~W.publish /\ ~W.filter /\ ~W.list

\* The loggedIn layout: everything but the login form is displayed.
LoggedIn(W) ==
    ~W.login /\ W.logout /\ W.publish /\ W.filter /\ W.list

\* No day panel has a memories block and the cover container is cleared.
NoMemoriesShown ==
    /\ \A d \in DOMAIN dayMemories : dayMemories[d].containers = <<>>
    /\ cover = ClearedCover

\* The page handled, in the last step, a 401 response to a request of one of
\* the kinds.
Handled401(kinds) == lastReq.op \in kinds /\ lastReq.res.status = 401

\* C13: the mounted memories widget is in exactly one of the layouts
\* loggedOut and loggedIn, whatever probe, login, logout, fetch and publish
\* events it has handled.
C13_OneLayout ==
    widget.mounted => (LoggedOut(widget) # LoggedIn(widget))

\* C13 witness: the widget is loggedIn after the answer to a publish, with a
\* memory stored.
C13_Witness ==
    /\ widget.mounted
    /\ LoggedIn(widget)
    /\ lastReq.op = "publish"
    /\ db.memories # <<>>

C15_LoggedOutShowsNoMemories ==
    (widget.mounted /\ widget.outBy = "exit" /\ LoggedOut(widget)) =>
        /\ \A d \in DOMAIN dayMemories : dayMemories[d].containers = <<>>
        /\ cover.data = <<>>

\* The stored memories whose day is the number n, in the order of the file.
MemoriesOfDay(file, n) ==
    SelectSeq(file.memories, LAMBDA mem : mem.day.kind = "number" /\ mem.day.n = n)

\* The responses the page started to wait for in the step.
Sent == net' \ net

\* C16: a login that succeeds leaves the browser with a session of the
\* user; GET /auth/me then answers with the user name of the session; a
\* memory published with day=2 is stored with day 2 and belongs to every
\* later answer to the day-2 fetch, which the materialized panel of day 2
\* shows in its memories block once the answer arrives; after the logout
\* request is settled no day panel has a memories block.
C16_LoginPublishShowLogout ==
    [][/\ \A m \in Sent :
            /\ (m.req.kind = "login" /\ m.res.status = 200) =>
                    sessions'[Browser] = Some("gui")
            /\ (m.req.kind = "me" /\ sessions[Browser].present) =>
                    /\ m.res.status = 200
                    /\ m.res.user = Some(sessions[Browser].value)
            /\ (m.req.kind = "publish" /\ m.res.status = 200
                    /\ widget'.form.day = "2") =>
                    /\ Len(MemoriesOfDay(db', 2)) = Len(MemoriesOfDay(db, 2)) + 1
                    /\ m.res.data[1].user = sessions[Browser].value
                    /\ m.res.data[1] = db'.memories[Len(db'.memories)]
            /\ (m.req.kind = "day" /\ m.req.day = 2 /\ m.res.status = 200) =>
                    m.res.data = MemoriesOfDay(db, 2)
       /\ (lastReq'.op = "day" /\ lastReq'.res.status = 200
                /\ lastReq'.res.json /\ lastReq'.id \in DOMAIN dayMemories') =>
                    dayMemories'[lastReq'.id].containers = <<lastReq'.res.data>>
       /\ lastReq'.op = "logout" =>
            \A d \in DOMAIN dayMemories' : dayMemories'[d].containers = <<>>]_vars

\* C16 witness: the answer to the day-2 fetch has just put the memory
\* published for day 2 in the memories block of the panel of day 2.
C16_Witness ==
    /\ lastReq.op = "day" /\ lastReq.id = 2 /\ lastReq.res.status = 200
    /\ 2 \in DOMAIN dayMemories
    /\ dayMemories[2].containers = <<MemoriesOfDay(db, 2)>>
    /\ MemoriesOfDay(db, 2) # <<>>
    /\ LoggedIn(widget)

\* C17: when the answer to a publish has status 200 or 201, the publish
\* form is cleared, the progress indicator is hidden, and the page awaits
\* the answers to a list fetch with the current status filter, to a
\* day-scoped fetch for every day of the itinerary, and to a cover fetch.
C17_PublishSuccessRefreshes ==
    (lastReq.op = "publish" /\ lastReq.res.status \in {200, 201}) =>
        /\ widget.form = EmptyForm
        /\ ~widget.progress
        /\ \E m \in net : m.req = Request("list", 0, widget.statusFilter)
        /\ \A n \in DOMAIN itineraryData :
                \E m \in net : m.req = Request("day", itineraryData[n].id, "")
        /\ \E m \in net : m.req = Request("cover", 0, "")

\* C17 witness: a publish was answered with success while the status filter
\* is set.
C17_Witness ==
    /\ lastReq.op = "publish" /\ lastReq.res.status \in {200, 201}
    /\ widget.statusFilter = "public"
    /\ widget.publishSuccess # ""

\* C18: a publish that fails with anything but a 401 leaves the layout, the
\* form, the day panels and the cover as they are, sends no request, and
\* shows the `error` of the answer or a generic message; the form is
\* cleared by nothing but a publish that succeeds.
C18_PublishFailureKeepsForm ==
    [][/\ (lastReq'.op = "publish"
                /\ lastReq'.res.status \notin {200, 201, 401}) =>
            /\ LoggedIn(widget') = LoggedIn(widget)
            /\ LoggedOut(widget') = LoggedOut(widget)
            /\ widget'.form = widget.form
            /\ ~widget'.progress
            /\ Sent = {}
            /\ dayMemories' = dayMemories /\ cover' = cover
            /\ widget'.publishSuccess = widget.publishSuccess
            /\ widget'.publishError =
                    IF lastReq'.res.status = 0 THEN "Erro ao enviar memoria."
                    ELSE IF lastReq'.res.json /\ lastReq'.res.error # ""
                    THEN lastReq'.res.error
                    ELSE "Falha ao salvar memoria."
       /\ (widget'.mounted /\ widget.form # EmptyForm
                /\ widget'.form = EmptyForm) =>
            (lastReq'.op = "publish" /\ lastReq'.res.status \in {200, 201})]_vars

\* C18 witness: the server rejected the file of a publish with status 500;
\* the widget is loggedIn and the form still holds the file.
C18_Witness ==
    /\ lastReq.op = "publish" /\ lastReq.res.status = 500
    /\ LoggedIn(widget)
    /\ widget.form.media # <<>>
    /\ widget.publishError = "Falha ao salvar memoria."

\* C19: a materialized day panel has at most one memories block, and has
\* one iff the last renderDayMemories call for the day passed a list.
C19_OneBlockIffList ==
    \A d \in DOMAIN dayMemories :
        /\ Len(dayMemories[d].containers) <= 1
        /\ Len(dayMemories[d].containers) = 1 <=> dayMemories[d].lastCall = "list"

\* C19 witness: the last renderDayMemories call for a day panel passed a
\* list with a memory, and the panel has one memories block with it.
C19_Witness ==
    \E d \in DOMAIN dayMemories :
        /\ dayMemories[d].lastCall = "list"
        /\ Len(dayMemories[d].containers) = 1
        /\ dayMemories[d].containers[1] # <<>>

\* The request answered in the step is a PUT or DELETE of a client whose
\* session belongs to a user other than the one the memory belongs to.
ForeignWrite ==
    /\ lastReq'.op \in {"PUT", "DELETE"}
    /\ sessions[lastReq'.client].present
    /\ FindMemory(db, lastReq'.id) # 0
    /\ db.memories[FindMemory(db, lastReq'.id)].user
            # sessions[lastReq'.client].value

---------------------------------------------------------------------------
(* Properties of the tab strip and of the stored lastDay *)

\* The view ids of the strip ts, in its order.
ViewsOf(ts) == [i \in DOMAIN ts |-> getIdFromTab(ts[i])]

\* C29: the tab strip built at startup has exactly one tab per DayRecord in
\* itinerary order, followed by a diary tab and a memories tab, and every
\* view id that startup resolution or navigation activates has a tab.
C29_StripCoversViews ==
    loaded =>
        /\ ViewsOf(tabs) =
                [i \in DOMAIN itineraryData |-> toString(itineraryData[i].id)]
                    \o <<"diary", "memories">>
        /\ FindTab(tabs, TabIdOf(lastOpened.id)) # 0

\* C30: the stored lastDay always names a day of the itinerary, whatever
\* startups and activations have run.
C30_LastDayNamesDay ==
    lastDay.present => FindDay(itineraryData, lastDay.value) # 0

---------------------------------------------------------------------------
(* Properties of the backend's store *)

\* The reactions object new is old with one reaction more: the count of
\* one emoji is higher by one (it starts at 0), no other count differs.
OneMore(old, new) ==
    \E e \in DOMAIN new :
        /\ DOMAIN new = DOMAIN old \cup {e}
        /\ new[e] = Count((IF e \in DOMAIN old THEN old[e].n ELSE 0) + 1)
        /\ \A k \in DOMAIN old \ {e} : new[k] = old[k]

\* C21: reaction counters only increment: every successful POST
\* /memories/:id/reactions and POST /comments/:id/reactions raises the
\* count of its emoji by exactly one, starting from 0 on a fresh memory or
\* comment, and changes no other count; no step lowers a count.
C21_ReactionsOnlyIncrement ==
    [][/\ (lastReq'.op = "react" /\ lastReq'.res.status = 200) =>
            OneMore(db.memories[FindMemory(db, lastReq'.id)].reactions,
                    db'.memories[FindMemory(db, lastReq'.id)].reactions)
       /\ (lastReq'.op = "reactComment" /\ lastReq'.res.status = 200) =>
            OneMore(db.comments[FindComment(db, lastReq'.id)].reactions,
                    db'.comments[FindComment(db, lastReq'.id)].reactions)
       /\ \A i \in DOMAIN db.memories : \A j \in DOMAIN db'.memories :
            db.memories[i].id = db'.memories[j].id =>
                \A e \in DOMAIN db.memories[i].reactions :
                    /\ e \in DOMAIN db'.memories[j].reactions
                    /\ db'.memories[j].reactions[e].kind = "number"
                    /\ db'.memories[j].reactions[e].n
                            >= db.memories[i].reactions[e].n]_vars

\* C23: every stored comment refers to a memory that is stored, after any
\* sequence of create, comment and delete requests.
C23_CommentsReferToMemories ==
    \A i \in DOMAIN db.comments :
        FindMemory(db, db.comments[i].memoryId) # 0

\* C23 witness: the first memory was deleted by its owner after a second
\* identifier had been issued, and no comment is left.
C23_Witness ==
    /\ lastReq.op = "DELETE" /\ lastReq.res.status = 200 /\ lastReq.id = 1
    /\ uuids = 2
    /\ db = EmptyDB

\* The requests that requireAuth guards.
GuardedOps ==
    {"GET", "POST", "PUT", "DELETE", "comment", "read", "comments", "react",
     "reactComment", "export"}

C27_TitlesNotEmpty ==
    \A i \in DOMAIN db.memories : db.memories[i].title # ""

\* s holds sub, the case of the letters apart.
HoldsIgnoringCase(s, sub) ==
    \E i \in 0..(Len(s) - Len(sub)) :
        toLowerCase(SubSeq(s, i + 1, i + Len(sub))) = toLowerCase(sub)

\* The memory m satisfies the filters status, q, from, to and day of the
\* query, as far as the query supplies them.
Satisfies(m, query) ==
    /\ query.status # "" => m.status = query.status
    /\ query.q # "" => \/ HoldsIgnoringCase(m.title, query.q)
                       \/ HoldsIgnoringCase(m.text, query.q)
    /\ query.from # "" => /\ DateOf(m.date).valid /\ DateOf(query.from).valid
                          /\ DateOf(query.from).t <= DateOf(m.date).t
    /\ query.to # "" => /\ DateOf(m.date).valid /\ DateOf(query.to).valid
                        /\ DateOf(m.date).t <= DateOf(query.to).t
    /\ (query.day.present /\ StrTrim(query.day.value) # "") =>
            /\ m.day.kind # "undefined"
            /\ DayString(m.day) = query.day.value

\* The memory m has the tag the query asks for, the case of the letters
\* apart, or the query asks for none.
SatisfiesTag(m, query) ==
    query.tag # "" =>
        \E i \in DOMAIN m.tags : toLowerCase(m.tags[i]) = toLowerCase(query.tag)

\* C22 as stated: GET /memories returns exactly the stored memories that
\* satisfy the filters status, q, from, to and day the request supplies,
\* in stored order.
C22_ListIsFilteredStore ==
    (lastReq.op = "GET" /\ lastReq.res.status = 200) =>
        lastReq.res.data =
            SelectSeq(db.memories, LAMBDA m : Satisfies(m, lastReq.id))

\* C22 amended: GET /memories returns exactly the stored memories that
\* satisfy every filter the request supplies, in stored order: tag equal
\* to one of the tags of the memory, the case of the letters apart, status
\* equal, q held by the title or the text, the case of the letters apart,
\* date not before from and not after to, day equal as strings; a blank or
\* absent day filters nothing.
C22_ListIsFilteredByTagToo ==
    (lastReq.op = "GET" /\ lastReq.res.status = 200) =>
        lastReq.res.data =
            SelectSeq(db.memories,
                LAMBDA m : Satisfies(m, lastReq.id) /\ SatisfiesTag(m, lastReq.id))

\* C22 witness: the search for PRAIA among the public memories returned
\* the one stored memory that is public and has `Praia` in its title, and
\* not the other stored memory.
C22_Witness ==
    /\ lastReq.op = "GET" /\ lastReq.res.status = 200
    /\ lastReq.id.q = "PRAIA" /\ lastReq.id.status = "public"
    /\ Len(db.memories) = 2
    /\ Len(lastReq.res.data) = 1
    /\ lastReq.res.data[1].title = "Praia"

---------------------------------------------------------------------------
(* Properties of overlapping fetches *)

\* C28: the list section shows the payload of the list response that
\* arrived last, and the memories block of a day panel the payload of the
\* response to a fetch for that day that arrived last, whatever the order
\* the requests were issued in: no response is discarded as stale.
C28_LastArrivalWins ==
    /\ (lastReq.op = "list" /\ lastReq.res.json /\ lastReq.res.status # 401) =>
            /\ widget.listView.data = lastReq.res.data
            /\ widget.listView.kind =
                    IF lastReq.res.data = <<>> THEN "empty" ELSE "cards"
    /\ (lastReq.op = "day" /\ lastReq.res.json /\ lastReq.res.status # 401
            /\ lastReq.id \in DOMAIN dayMemories) =>
            /\ Len(dayMemories[lastReq.id].containers) = 1
            /\ dayMemories[lastReq.id].containers[1] = lastReq.res.data

\* C28 witness: the search with the filter `public` was the last one
\* issued, every list response has arrived, and the list section shows
\* the draft memory of the response to the search issued before it, which
\* arrived last.
C28_Witness ==
    /\ lastReq.op = "list" /\ lastReq.res.status = 200
    /\ widget.statusFilter = "public"
    /\ \A m \in net : m.req.kind # "list"
    /\ widget.listView.kind = "cards"
    /\ \E i \in DOMAIN widget.listView.data :
            widget.listView.data[i].status = "draft"

---------------------------------------------------------------------------
(* Properties of parseItinerary *)

\* The text t without the white space around it, "" when there is none.
TextOr(opt) == IF opt.present THEN StrTrim(opt.value) ELSE ""

\* C25: for a source with N day blocks in ascending id order
\* parseItinerary returns N DayRecords in the same order and leaves no
\* day block in the document; a block without subtitle or a row without
\* time label yields the empty string, a block without highlight or a row
\* without transport note yields null.
C25_ParseKeepsOrderAndRemoves ==
    [][lastOp'.op = "parse" =>
        /\ cards' = <<>>
        /\ Len(itineraryData') = Len(cards)
        /\ \A i \in DOMAIN cards :
            LET card == cards[i]
                rec == itineraryData'[i]
            IN  /\ toString(rec.id) = card.day
                /\ rec.title = TextOr(card.title)
                /\ rec.subtitle = TextOr(card.sub)
                /\ rec.highlight.present = card.highlight.present
                /\ rec.highlight.value = TextOr(card.highlight)
                /\ Len(rec.schedule) = Len(card.rows)
                /\ \A r \in DOMAIN card.rows :
                    /\ rec.schedule[r].time = TextOr(card.rows[r].time)
                    /\ rec.schedule[r].transport.present
                            = card.rows[r].transport.present
                    /\ rec.schedule[r].transport.value
                            = TextOr(card.rows[r].transport)
                    /\ rec.schedule[r].html = StrTrim(card.rows[r].html)]_vars

\* C25 witness: a document with two day blocks was parsed: day 1 has
\* neither subtitle nor highlight and a row without time label and
\* transport note, day 2 has all of them; no day block is left.
C25_Witness ==
    /\ lastOp.op = "parse"
    /\ cards = <<>>
    /\ Len(itineraryData) = 2
    /\ itineraryData[1].id = 1 /\ itineraryData[2].id = 2
    /\ itineraryData[1].subtitle = "" /\ itineraryData[1].highlight = None
    /\ Len(itineraryData[1].schedule) = 1
    /\ itineraryData[1].schedule[1].time = ""
    /\ itineraryData[1].schedule[1].transport = None
    /\ itineraryData[2].subtitle = "s"
    /\ itineraryData[2].highlight = Some("<b>h</b>")
    /\ itineraryData[2].schedule = <<[time |-> "09:00", html |-> "<p>d</p>",
                                      transport |-> Some("<em>bus</em>")]>>

---------------------------------------------------------------------------
(* Properties of the readers of the item store *)

\* A stored value none of the readers can take an item state from: a text
\* that is no JSON, null, a primitive value.
Unreadable(v) == v.kind \in {"corrupt", "null", "prim"}

\* The storage with every unreadable value removed.
Readable(st) ==
    [key \in DOMAIN st |-> IF Unreadable(st[key]) THEN AbsentItem ELSE st[key]]

\* C26: whatever is stored under an item key, an unreadable value is read
\* as an absent one: every day tab's label counts the readable completed
\* values only, a day panel built in a step shows the rows of unreadable
\* values as not completed and without note, and a diary list written in
\* a step holds the notes of the readable values only.
C26_UnreadableIsAbsent ==
    [][loaded' =>
        /\ \A n \in DOMAIN itineraryData' :
               LET day == itineraryData'[n]
               IN  tabs'[n].label =
                       ExpectedLabel(day.id,
                                     DoneOf(Readable(store'), day.id, day.rows),
                                     day.rows)
        /\ \A n \in DOMAIN itineraryData' :
               LET day == itineraryData'[n]
                   view == toString(day.id)
               IN  (/\ view \in DOMAIN tabPanels'
                    /\ ~(loaded /\ view \in DOMAIN tabPanels)) =>
                       \A i \in 1..day.rows :
                           LET row == tabPanels'[view].items[i]
                               fresh == PanelItems(Readable(store'),
                                                   day.id, day.rows)[i]
                           IN  /\ row.completed = fresh.completed
                               /\ row.noteDisplay = fresh.noteDisplay
        /\ diaryList' # diaryList =>
               diaryList' = DiaryEntries(itineraryData', Readable(store'))
     ]_vars

\* C26 witness: the panel of day 1 is built over an unreadable value while
\* the row of day 2 is stored as completed with a note.
C26_Witness ==
    /\ loaded
    /\ "1" \in DOMAIN tabPanels
    /\ Unreadable(store[ItemKey(1, 0)])
    /\ store[ItemKey(2, 0)].kind = "obj"
    /\ tabs[1].label = "Dia 1 (0/1)"
    /\ ~tabPanels["1"].items[1].completed

---------------------------------------------------------------------------
(* Properties of the note and completion handlers of a row *)

\* The text consists of whitespace only (or is empty).
Blank(text) == \A i \in DOMAIN text : text[i] = " "

\* The key of the row whose note prompt was answered last.
ClickedKey == ItemKey(tabPanels[lastOp.prev].day, lastOp.from - 1)

\* The row whose note prompt was answered last.
ClickedRow == tabPanels[lastOp.prev].items[lastOp.from]

\* C31: after every step each stored note is absent or a non-empty text
\* that neither starts nor ends with whitespace; a prompt answered with an
\* empty or whitespace-only text leaves the row without stored note and
\* with an empty note display; a cancelled prompt changes neither the
\* storage nor anything displayed.
C31_NotesTrimmedOrAbsent ==
    [][/\ \A key \in DOMAIN store' :
              LET note == StoredNote(store'[key])
              IN  note # <<>> => (note[1] # " " /\ note[Len(note)] # " ")
       /\ (lastOp'.op = "note" /\ Blank(lastOp'.param.value)) =>
              /\ StoredNote(store'[ClickedKey']) = <<>>
              /\ ClickedRow'.noteDisplay = <<>>
       /\ lastOp'.op = "cancel" =>
              /\ store' = store
              /\ tabPanels' = tabPanels
              /\ tabs' = tabs
              /\ diaryList' = diaryList
              /\ diaryHidden' = diaryHidden
      ]_vars

\* C31 witness: the prompt of a row was answered with ` a ` and the row's
\* stored note is `a`.
C31_Witness ==
    /\ lastOp.op = "note"
    /\ lastOp.param = Some(<<" ", "a", " ">>)
    /\ store[ClickedKey].note = <<"a">>
    /\ ClickedRow.noteDisplay = <<"a">>

\* Some stored item state has a non-empty note.
SomeNoteStored ==
    \E key \in DOMAIN store : store[key].kind = "obj" /\ store[key].note # <<>>

\* C32: whenever the diary panel exists, it holds the empty-state message
\* exactly when no stored item state has a non-empty note.
C32_EmptyMessageIffNoNotes ==
    (loaded /\ "diary" \in DOMAIN tabPanels) =>
        (tabPanels["diary"].msgs > 0 <=> ~SomeNoteStored)

---------------------------------------------------------------------------
(* Properties of the itinerary-side renders *)

\* C33: a step that handles a response (the renders of a day-scoped fetch
\* and of the cover fetch, and the bulk refresh showApp starts, are such
\* steps) registers no panel and mounts no widget, and leaves the tab
\* strip, the panels of the controller and the active view as they are;
\* the render of a day whose panel is not registered changes nothing of
\* the day panels.
C33_RendersBuildNoPanel ==
    [][lastReq'.op # "none" =>
        /\ DOMAIN dayMemories' = DOMAIN dayMemories
        /\ widget'.mounted = widget.mounted
        /\ tabPanels' = tabPanels
        /\ tabs' = tabs
        /\ lastOpened' = lastOpened
        /\ (lastReq'.op = "day" /\ lastReq'.id \notin DOMAIN dayMemories) =>
               dayMemories' = dayMemories
      ]_vars

\* C33 witness: a day-scoped fetch was answered with a list while the panel
\* of its day is not built.
C33_Witness ==
    /\ lastReq.op = "day"
    /\ lastReq.res.status = 200
    /\ lastReq.id \notin DOMAIN dayMemories
    /\ widget.mounted

\* The memory belongs to no day: its day is absent or blank.
NoDay(m) ==
    \/ m.day.kind = "undefined"
    \/ m.day.kind = "string" /\ \A i \in 1..Len(m.day.s) :
                                    SubSeq(m.day.s, i, i) = " "

\* The memory belongs to day d.
HasDay(m, d) ==
    \/ m.day.kind = "number" /\ m.day.n = d
    \/ m.day.kind = "string" /\ m.day.s = toString(d)

\* C34: the cover rendered from a successful fetch holds exactly the
\* stored memories whose day is absent or blank, and the block of day d
\* rendered from a successful fetch holds exactly the stored memories of
\* day d, so that a memory of a day is in no other block and not in the
\* cover.
C34_ViewsPartitionMemories ==
    [][/\ (lastReq'.op = "cover" /\ lastReq'.res.status = 200) =>
              /\ cover'.filled
              /\ cover'.data = SelectSeq(db'.memories, NoDay)
       /\ (lastReq'.op = "day" /\ lastReq'.res.status = 200) =>
              LET d == lastReq'.id
              IN  /\ Len(dayMemories'[d].containers) = 1
                  /\ dayMemories'[d].containers[1]
                         = SelectSeq(db'.memories, LAMBDA m : HasDay(m, d))
      ]_vars

\* C34 witness: the block of day 2 was rendered with a memory of day 2
\* while the store also holds a memory of no day, which the cover shows.
C34_Witness ==
    /\ lastReq.op = "day"
    /\ lastReq.id = 2
    /\ Len(dayMemories[2].containers[1]) = 1
    /\ Len(cover.data) = 1
    /\ Len(db.memories) = 2
    /\ \E i \in DOMAIN db.memories : NoDay(db.memories[i])

---------------------------------------------------------------------------
(* Properties of the stored memories over the requests *)

\* The sequence old is the beginning of the sequence new.
BeginsWith(new, old) ==
    Len(old) <= Len(new) /\ SubSeq(new, 1, Len(old)) = old

\* The memory new is the memory old with the same identifier, owner and
\* creation time, and with the media of old, in their order, at the
\* beginning of its media.
SameMemory(old, new) ==
    /\ new.id = old.id
    /\ new.user = old.user
    /\ new.createdAt = old.createdAt
    /\ BeginsWith(new.media, old.media)

\* C35: a request other than a DELETE leaves every stored memory in its
\* place with its id, user and createdAt, and with its media list only
\* extended at the end; a DELETE leaves the memories that remain stored
\* with their user, createdAt and media.
C35_IdentityAndMediaKept ==
    [][IF lastReq'.op = "DELETE"
       THEN \A i \in DOMAIN db.memories :
                \A j \in DOMAIN db'.memories :
                    db'.memories[j].id = db.memories[i].id =>
                        SameMemory(db.memories[i], db'.memories[j])
       ELSE /\ Len(db'.memories) >= Len(db.memories)
            /\ \A i \in DOMAIN db.memories :
                    SameMemory(db.memories[i], db'.memories[i])
      ]_vars

\* C35 witness: a PUT of the owner with a file was answered 200 and the
\* memory has the file it was created with followed by the new one.
C35_Witness ==
    /\ lastReq.op = "PUT"
    /\ lastReq.res.status = 200
    /\ Len(db.memories) = 1
    /\ db.memories[1].createdAt = Earlier
    /\ Len(db.memories[1].media) = 2
    /\ db.memories[1].media[1] = [uuid |-> 0, ext |-> ".jpg"]

\* C36: the list GET /memories returns to a client holds only memories
\* whose user is the user of the client's session.
C36_ListHoldsOwnMemoriesOnly ==
    (lastReq.op = "GET" /\ lastReq.res.status = 200) =>
        \A i \in DOMAIN lastReq.res.data :
            lastReq.res.data[i].user = sessions[lastReq.client].value

\* C37: every row of a built day panel is displayed as completed exactly
\* when the state stored under its key has completed=true.
C37_DisplayMatchesStore ==
    loaded =>
        \A n \in DOMAIN itineraryData :
            LET day == itineraryData[n]
                view == toString(day.id)
            IN  view \in DOMAIN tabPanels =>
                    \A i \in 1..day.rows :
                        LET stored == store[ItemKey(day.id, i - 1)]
                        IN  tabPanels[view].items[i].completed
                                <=> (stored.kind = "obj" /\ stored.completed = "true")

\* C38: the step that settles a logout request, whether by the answer of
\* the server, by an error status or by a network error, ends with the
\* widget logged out, no memories block in any day panel and the cover
\* cleared.
C38_LogoutAlwaysClears ==
    [][lastReq'.op = "logout" =>
        /\ widget'.login /\ ~widget'.logout /\ ~widget'.publish
        /\ ~widget'.filter /\ ~widget'.list
        /\ \A d \in DOMAIN dayMemories' : dayMemories'[d].containers = <<>>
        /\ cover' = [hidden |-> TRUE, filled |-> FALSE, data |-> <<>>]
      ]_vars

\* C38 witness: a logout request failed at the network level while the
\* panel of a day is built.
C38_Witness ==
    /\ lastReq.op = "logout"
    /\ lastReq.res = NetworkError
    /\ DOMAIN dayMemories # {}
    /\ widget.login /\ ~widget.logout

\* The reactions object new is old after one more reaction was counted
\* under the key e.
CountedOnce(old, new, e) ==
    new = [k \in DOMAIN old \cup {e} |->
              IF k = e
              THEN [kind |-> "number", s |-> "",
                    n |-> IF e \in DOMAIN old THEN old[e].n + 1 ELSE 1]
              ELSE old[k]]

\* C39: with the requests of two clients arriving in any order, every
\* successful create leaves the store as it was with the new memory at
\* the end, every successful comment leaves it as it was with the new
\* comment at the end, and every successful reaction leaves it as it was
\* with the count of one emoji of the record one higher: no step loses
\* what an earlier request stored, and a count is the number of the
\* successful reactions.
C39_NoLostUpdates ==
    [][/\ (lastReq'.op = "POST" /\ lastReq'.res.status = 200) =>
            /\ db'.memories = Append(db.memories, lastReq'.res.data[1])
            /\ db'.comments = db.comments
       /\ (lastReq'.op = "comment" /\ lastReq'.res.status = 200) =>
            /\ db'.comments = Append(db.comments, lastReq'.res.data[1])
            /\ db'.memories = db.memories
       /\ (lastReq'.op = "react" /\ lastReq'.res.status = 200) =>
            LET idx == FindMemory(db, lastReq'.id)
            IN  \E e \in DOMAIN db'.memories[idx].reactions :
                    /\ CountedOnce(db.memories[idx].reactions,
                                   db'.memories[idx].reactions, e)
                    /\ db' = [db EXCEPT !.memories[idx].reactions =
                                            db'.memories[idx].reactions]
       /\ (lastReq'.op = "reactComment" /\ lastReq'.res.status = 200) =>
            LET idx == FindComment(db, lastReq'.id)
            IN  \E e \in DOMAIN db'.comments[idx].reactions :
                    /\ CountedOnce(db.comments[idx].reactions,
                                   db'.comments[idx].reactions, e)
                    /\ db' = [db EXCEPT !.comments[idx].reactions =
                                            db'.comments[idx].reactions]
      ]_vars

====
